---------------------------- MODULE Spec2Model ----------------------------
(***************************************************************************)
(* State-machine model of the retrieval engine of ai-chatbot-rag           *)
(* (RAGEngine, QueryOptimizer, QdrantService, EmbeddingService,            *)
(* CitationManager).                                                       *)
(*                                                                         *)
(* Representation.                                                         *)
(*  - A text (query, chunk text, title) is a sequence of lower-case word    *)
(*    tokens; "?" is the one punctuation token.  String.includes(cue) is   *)
(*    containment of the cue's words as a contiguous run, where a word     *)
(*    also contains every cue listed for it in Infix (character-level      *)
(*    substrings inside one word).                                         *)
(*  - A similarity / score / threshold is an integer in thousandths        *)
(*    (Scale = 1000 is the float 1.0); products are floored.               *)
(*  - An embedding is an integer vector of dimension 3; the external model *)
(*    is the fixed table EmbeddingTable.                                   *)
(*  - Time is counted in minutes.                                          *)
(*  - A thrown exception is the record [ok |-> FALSE]; a normal return is  *)
(*    [ok |-> TRUE, val |-> ...].                                          *)
(***************************************************************************)
EXTENDS Integers, Sequences, FiniteSets, TLC

Scale == 1000

(* ------------------------------ bounds --------------------------------- *)
MaxBatches == 2       \* addDocuments calls that store their batch
MaxSearches == 2      \* search calls in one run
MaxTime == 5          \* minutes of wall-clock time covered
MaxCached == 97       \* results cached before the run of the cache begins
MaxKeys == 103        \* different cache keys written in the run of the cache
MaxCalls == 2         \* requests the server handles at the same time
MaxCommands == 3      \* log-manager commands run beside the daemon
MaxRequests == 2      \* /api/chat requests that arrive while the server starts

(* ------------------------- generic helpers ----------------------------- *)
Min(a, b) == IF a < b THEN a ELSE b
Max(a, b) == IF a > b THEN a ELSE b

Range(s) == {s[i] : i \in 1..Len(s)}

RECURSIVE SeqFilter(_, _)
\* Array.prototype.filter with the predicate given as the set of kept values
SeqFilter(s, keep) ==
  IF s = <<>> THEN <<>>
  ELSE IF Head(s) \in keep THEN <<Head(s)>> \o SeqFilter(Tail(s), keep)
       ELSE SeqFilter(Tail(s), keep)

Take(s, n) == SubSeq(s, 1, Min(n, Len(s)))

RECURSIVE Dedup(_)
\* [...new Set(s)]: first occurrences, in order
Dedup(s) ==
  IF s = <<>> THEN <<>>
  ELSE <<Head(s)>> \o Dedup(SeqFilter(Tail(s), Range(Tail(s)) \ {Head(s)}))

RECURSIVE Flatten(_)
Flatten(ss) == IF ss = <<>> THEN <<>> ELSE Head(ss) \o Flatten(Tail(ss))

\* the cue's words occur in text as a contiguous run
IsInfixSeq(cue, text) ==
  \E i \in 0..(Len(text) - Len(cue)) :
     \A j \in 1..Len(cue) : text[i + j] = cue[j]

(* Character-level containment inside one word: <<w, c>> means the word w  *)
(* contains the string c as a proper substring.                            *)
Infix ==
  { <<"this", "is">>, <<"errors", "error">>, <<"connecting", "connect">>,
    <<"steps", "step">>, <<"endpoints", "endpoint">>,
    <<"troubleshooting", "troubleshoot">>, <<"fixes", "fix">> }

WordHas(w, c) == w = c \/ <<w, c>> \in Infix

\* text.includes(cue) for a cue of one or more words
Includes(text, cue) ==
  IF Len(cue) = 1 THEN \E i \in 1..Len(text) : WordHas(text[i], cue[1])
  ELSE IsInfixSeq(cue, text)

IncludesAny(text, cues) == \E c \in cues : Includes(text, c)

(* ------------------------------- URLs ---------------------------------- *)
(* A URL is [host |-> sequence of labels, path |-> sequence of segments,    *)
(* search |-> query string]; NoUrl is a missing URL.  Every URL of the     *)
(* pool parses (new URL(url) succeeds).                                    *)
NoUrl == [host |-> <<>>, path |-> <<>>, search |-> "none"]

Capitalize(label) ==
  CASE label = "atlan" -> "Atlan"
    [] label = "snowflake" -> "Snowflake"
    [] label = "databricks" -> "Databricks"
    [] label = "example" -> "Example"
    [] label = "notes" -> "Notes"
    [] label = "docs" -> "Docs"
    [] OTHER -> label

\* RAGEngine.extractDomain (the second definition in the class is the one in force)
extractDomain(url) == IF url = NoUrl THEN <<>> ELSE url.host

\* RAGEngine.extractUrlPath: the pathname, query string stripped ("/" is <<>>)
extractUrlPath(url) == url.path

\* String.includes on a URL, for a pattern of one word
UrlIncludes(url, pat) ==
  \/ \E i \in 1..Len(url.host) : WordHas(url.host[i], pat)
  \/ \E i \in 1..Len(url.path) : WordHas(url.path[i], pat)

\* url.includes("/seg/"): seg is a path segment followed by another one
UrlHasDir(url, seg) == \E i \in 1..(Len(url.path) - 1) : url.path[i] = seg

skipPrefixes == {"www", "api", "app", "portal", "admin"}

\* RAGEngine.extractBrandName
extractBrandName(url) ==
  LET domain == extractDomain(url) IN
  IF domain = <<"docs", "atlan", "com">> THEN "Atlan"
  ELSE IF domain = <<"docs", "snowflake", "com">> THEN "Snowflake"
  ELSE IF domain = <<"docs", "databricks", "com">> THEN "Databricks"
  ELSE IF Len(domain) >= 2 /\ domain[1] = "docs" THEN Capitalize(domain[2])
  ELSE IF Len(domain) >= 2
            /\ \E i \in 1..Len(domain) :
                  domain[i] \notin skipPrefixes /\ Len(domain[i]) > 2
       THEN LET i == CHOOSE k \in 1..Len(domain) :
                        /\ domain[k] \notin skipPrefixes /\ Len(domain[k]) > 2
                        /\ \A m \in 1..(k - 1) :
                              domain[m] \in skipPrefixes \/ Len(domain[m]) <= 2
            IN Capitalize(domain[i])
  ELSE IF domain = <<>> THEN ""
  ELSE Capitalize(domain[1])


(* --------------------------- QueryOptimizer ---------------------------- *)
stopWords ==
  { "the", "a", "an", "and", "or", "but", "in", "on", "at", "to", "for", "of",
    "with", "by", "is", "are", "was", "were", "be", "been", "being", "have",
    "has", "had", "do", "does", "did", "will", "would", "could", "should",
    "may", "might", "must", "can", "this", "that", "these", "those", "i",
    "you", "he", "she", "it", "we", "they", "me", "him", "her", "us", "them" }

Punct == {"?"}

\* QueryOptimizer.extractWords: punctuation becomes white space, empty words dropped
extractWords(query) == SeqFilter(query, Range(query) \ Punct)

\* the first two synonyms of QueryOptimizer.synonymMap[word] (slice(0, 2)),
\* each a text of its own
synonymMap2(word) ==
  CASE word = "connect" -> << <<"integration">>, <<"setup">> >>
    [] word = "setup" -> << <<"configure">>, <<"install">> >>
    [] word = "configure" -> << <<"setup">>, <<"customize">> >>
    [] word = "database" -> << <<"db">>, <<"datastore">> >>
    [] word = "api" -> << <<"interface">>, <<"endpoint">> >>
    [] word = "authentication" -> << <<"auth">>, <<"login">> >>
    [] word = "security" -> << <<"protection">>, <<"access", "control">> >>
    [] word = "performance" -> << <<"speed">>, <<"optimization">> >>
    [] word = "error" -> << <<"issue">>, <<"problem">> >>
    [] word = "troubleshoot" -> << <<"debug">>, <<"diagnose">> >>
    [] word = "data" -> << <<"information">>, <<"dataset">> >>
    [] word = "query" -> << <<"search">>, <<"lookup">> >>
    [] word = "dashboard" -> << <<"interface">>, <<"panel">> >>
    [] word = "monitoring" -> << <<"tracking">>, <<"observability">> >>
    [] word = "deployment" -> << <<"release">>, <<"publish">> >>
    [] word = "migration" -> << <<"transfer">>, <<"move">> >>
    [] word = "backup" -> << <<"snapshot">>, <<"copy">> >>
    [] word = "sync" -> << <<"synchronize">>, <<"update">> >>
    [] word = "workflow" -> << <<"process">>, <<"pipeline">> >>
    [] OTHER -> <<>>

isDefinitionQuery(q) ==
  IncludesAny(q, { <<"what", "is">>, <<"what", "are">>, <<"define">>,
                   <<"definition">>, <<"meaning", "of">>, <<"explain", "what">> })

isHowToQuery(q) ==
  IncludesAny(q, { <<"how", "to">>, <<"how", "do">>, <<"how", "can">>,
                   <<"steps", "to">>, <<"process", "of">>, <<"way", "to">> })

isComparisonQuery(q) ==
  IncludesAny(q, { <<"vs">>, <<"versus">>, <<"compare">>,
                   <<"difference", "between">>, <<"better", "than">>,
                   <<"advantages", "of">> })

isTroubleshootingQuery(q) ==
  IncludesAny(q, { <<"error">>, <<"problem">>, <<"issue">>, <<"fix">>, <<"solve">>,
                   <<"troubleshoot">>, <<"debug">>, <<"not", "working">> })

isExampleQuery(q) ==
  IncludesAny(q, { <<"example">>, <<"sample">>, <<"instance">>, <<"case">>,
                   <<"show", "me">>, <<"demonstrate">> })

\* QueryOptimizer.analyzeQuery
analyzeQuery(query) ==
  LET Analysis(words) ==
        [ type |-> IF isDefinitionQuery(query) THEN "definition"
                   ELSE IF isHowToQuery(query) THEN "how_to"
                   ELSE IF isComparisonQuery(query) THEN "comparison"
                   ELSE IF isTroubleshootingQuery(query) THEN "troubleshooting"
                   ELSE IF isExampleQuery(query) THEN "example"
                   ELSE "general",
          keywords |-> SeqFilter(words, Range(words) \ stopWords),
          wordCount |-> Len(words),
          hasQuestionMark |-> "?" \in Range(query),
          isShort |-> Len(words) <= 3,
          isLong |-> Len(words) > 10 ]
  IN Analysis(extractWords(query))

\* the least number of a non-empty set of numbers
Least(S) == CHOOSE k \in S : \A m \in S : k <= m

\* the words up to the first "?" ([^?]+ of the extraction patterns)
UpToQuestionMark(s) ==
  LET marks == {i \in 1..Len(s) : s[i] = "?"}
      Before(S) == IF S = {} THEN s ELSE SubSeq(s, 1, Least(S) - 1)
  IN Before(marks)

(* One extraction pattern /cue (?:art |...)?([^?]+)/: the capture of the    *)
(* leftmost match, or <<>> when the pattern does not match.                *)
Capture(query, cue, articles) ==
  LET starts == { i \in 0..(Len(query) - Len(cue)) :
                    /\ \A j \in 1..Len(cue) : query[i + j] = cue[j]
                    /\ i + Len(cue) < Len(query)
                    /\ query[i + Len(cue) + 1] # "?" }
      Body(rest) == IF Head(rest) \in articles /\ Len(rest) > 1 /\ rest[2] # "?"
                    THEN Tail(rest) ELSE rest
      Leftmost(S) ==
        IF S = {} THEN <<>>
        ELSE UpToQuestionMark(Body(SubSeq(query, Least(S) + Len(cue) + 1, Len(query))))
  IN Leftmost(starts)

\* the first capture that matched, or else the fallback
OrElse(capture, fallback) == IF capture # <<>> THEN capture ELSE fallback

\* the first pattern of a list that matches decides
RECURSIVE FirstCapture(_, _, _)
FirstCapture(query, cues, articles) ==
  IF cues = <<>> THEN query
  ELSE OrElse(Capture(query, Head(cues), articles),
              FirstCapture(query, Tail(cues), articles))

\* QueryOptimizer.extractMainTerm
extractMainTerm(query) ==
  FirstCapture(query, << <<"what", "is">>, <<"define">>, <<"meaning", "of">> >>,
               {"a", "an", "the"})

\* QueryOptimizer.extractActionAndObject
extractActionAndObject(query) ==
  OrElse(Capture(query, <<"how", "to">>, {}),
         OrElse(Capture(query, <<"how", "do">>, {"you", "i"}),
                OrElse(Capture(query, <<"steps", "to">>, {}), query)))

\* QueryOptimizer.extractProblemTerms
extractProblemTerms(query) ==
  LET problemWords == {"error", "problem", "issue", "fix", "solve", "troubleshoot", "debug"}
      Terms(words) ==
        SeqFilter(words, {w \in Range(words) : \E p \in problemWords : WordHas(w, p)})
  IN OrElse(Terms(extractWords(query)), query)

\* QueryOptimizer.extractConceptTerm
extractConceptTerm(query) ==
  FirstCapture(query, << <<"example", "of">>, <<"sample", "of">>, <<"show", "me">>,
                         <<"demonstrate">> >>, {})

(* QueryOptimizer.extractComparisonTerms.  /([^vs]+) vs ([^?]+)/ captures   *)
(* before " vs " the longest run of characters that are neither v nor s:   *)
(* NoVsTail gives that run for the word standing before "vs".              *)
NoVsTail(word) ==
  CASE word = "snowflake" -> "nowflake"
    [] word = "databricks" -> "databrick"
    [] OTHER -> word

extractComparisonTerms(query) ==
  LET at == { i \in 2..(Len(query) - 1) : query[i] = "vs" /\ query[i + 1] # "?" }
      Around(i) ==
        <<NoVsTail(query[i - 1])>> \o UpToQuestionMark(SubSeq(query, i + 1, Len(query)))
      Versus(S) ==
        IF S # {} THEN Around(Least(S))
        ELSE OrElse(Capture(query, <<"compare">>, {}),
                    OrElse(Capture(query, <<"difference", "between">>, {}), query))
  IN Versus(at)

\* QueryOptimizer.optimizeQuery
optimizeQuery(query, analysis) ==
  OrElse(CASE analysis.type = "definition" -> extractMainTerm(query)
           [] analysis.type = "how_to" -> extractActionAndObject(query)
           [] analysis.type = "comparison" -> extractComparisonTerms(query)
           [] analysis.type = "troubleshooting" -> extractProblemTerms(query)
           [] analysis.type = "example" -> extractConceptTerm(query)
           [] OTHER -> analysis.keywords,
         query)

\* QueryOptimizer.expandQuery: the non-stop words, then two synonyms a word
optimizerExpandQuery(query) ==
  LET Expanded(words) ==
        Flatten(Dedup(
          SeqFilter([i \in 1..Len(words) |-> <<words[i]>>],
                    {<<w>> : w \in Range(words) \ stopWords})
          \o Flatten([i \in 1..Len(words) |-> synonymMap2(words[i])])))
  IN Expanded(extractWords(query))

\* QueryOptimizer.preprocessQuery: the expanded query is handed on as "optimized"
preprocessQuery(query) ==
  LET Preprocessed(analysis) ==
        [ original |-> query,
          optimized |-> optimizerExpandQuery(optimizeQuery(query, analysis)),
          analysis |-> analysis ]
  IN Preprocessed(analyzeQuery(query))

\* QueryOptimizer.generateContextualQuery
generateContextualQuery(query, conversationHistory) ==
  LET Recent(n) == Flatten(SubSeq(conversationHistory, Max(1, n - 2), n))
      Common(queryWords, contextWords) ==
        SeqFilter(queryWords, (Range(queryWords) \cap contextWords) \ stopWords)
      With(commonTerms) == IF Len(commonTerms) > 0 THEN query \o commonTerms ELSE query
  IN IF conversationHistory = <<>> THEN query
     ELSE With(Common(extractWords(query),
                      Range(extractWords(Recent(Len(conversationHistory))))))


(* ------------------------- the document pool --------------------------- *)
(* The documents a scrape or an upload can hand to addDocument.  content   *)
(* is the list of chunk texts chunkText yields for the document;           *)
(* DocBatches are the lists a scrape hands to addDocuments, in order.      *)
DocBatches == << <<"A1", "A2">>, <<"A4", "S1">> >>

AtlanHost == <<"docs", "atlan", "com">>

Doc(d) ==
  CASE d = "A1" ->
         [ url |-> [host |-> AtlanHost, path |-> <<"intro">>, search |-> ""],
           title |-> <<"atlan", "overview">>, ageDays |-> 1, isManuallyAdded |-> FALSE,
           content |-> << <<"atlan", "is", "a", "data", "catalog", "platform">>,
                          <<"atlan", "connects", "to", "snowflake", "warehouse">> >> ]
    [] d = "A2" ->
         [ url |-> [host |-> AtlanHost, path |-> <<"setup">>, search |-> ""],
           title |-> <<"setup", "guide">>, ageDays |-> 1, isManuallyAdded |-> FALSE,
           content |-> << <<"steps", "to", "fix", "atlan", "setup">> >> ]
    [] d = "A4" ->
         [ url |-> [host |-> AtlanHost, path |-> <<"api">>, search |-> "v=2"],
           title |-> <<"api", "reference">>, ageDays |-> 400, isManuallyAdded |-> FALSE,
           content |-> << <<"atlan", "api", "reference", "endpoints">> >> ]
    [] OTHER ->
         [ url |-> [host |-> <<"docs", "snowflake", "com">>, path |-> <<"index">>,
                    search |-> ""],
           title |-> <<"snowflake", "docs">>, ageDays |-> 1, isManuallyAdded |-> FALSE,
           content |-> << <<"snowflake", "is", "a", "data", "warehouse">> >> ]

(* --------------------------- EmbeddingService -------------------------- *)
(* The external embedding model: a fixed function from texts to vectors of  *)
(* dimension 3.                                                            *)
EmbeddingTable(text) ==
  CASE text = <<"atlan", "is", "a", "data", "catalog", "platform">> -> <<63, 16, 0>>
    [] text = <<"steps", "to", "fix", "atlan", "setup">> -> <<60, 25, 0>>
    [] text = <<"atlan", "connects", "to", "snowflake", "warehouse">> -> <<56, 33, 0>>
    [] text = <<"atlan", "api", "reference", "endpoints">> -> <<52, 39, 0>>
    [] text = <<"snowflake", "is", "a", "data", "warehouse">> -> <<33, 20, 52>>
    [] Len(text) > 0 /\ text[1] = "atlan" -> <<65, 0, 0>>
    [] Len(text) > 0 /\ text[1] = "error" -> <<0, 65, 0>>
    [] Len(text) > 0 /\ text[1] = "what" -> <<60, -25, 0>>
    [] OTHER -> <<33, 56, 0>>

RECURSIVE ISqrtFrom(_, _)
\* Newton's iteration for the integer square root
ISqrtFrom(n, x) ==
  LET y == (x + n \div x) \div 2 IN IF y >= x THEN x ELSE ISqrtFrom(n, y)

ISqrt(n) == IF n <= 1 THEN n ELSE ISqrtFrom(n, n)

RECURSIVE Dot(_, _)
Dot(a, b) == IF a = <<>> THEN 0 ELSE Head(a) * Head(b) + Dot(Tail(a), Tail(b))

\* EmbeddingService.cosineSimilarity, in thousandths; throws on unequal lengths
cosineSimilarity(vectorA, vectorB) ==
  IF vectorA = <<>> \/ vectorB = <<>> \/ Len(vectorA) # Len(vectorB)
  THEN [ok |-> FALSE, val |-> 0]
  ELSE LET Cosine(normA2, normB2) ==
             IF normA2 = 0 \/ normB2 = 0 THEN 0
             ELSE (Dot(vectorA, vectorB) * Scale) \div ISqrt(normA2 * normB2)
       IN [ok |-> TRUE, val |-> Cosine(Dot(vectorA, vectorA), Dot(vectorB, vectorB))]


(* ------------------------------ RAGEngine ------------------------------ *)
cacheTimeout == 5        \* minutes
maxChunksPerQuery == 5
DefaultThreshold == 700  \* SIMILARITY_THRESHOLD unset

\* the values SIMILARITY_THRESHOLD is configured with
Thresholds == {DefaultThreshold, 850}

(* A chunk of the knowledge base (or a point of the external collection):  *)
(* [id, text, vector, metadata].  A search result is a chunk with its      *)
(* similarity and, after ranking, its relevanceBoost (0: not set).         *)
MkChunk(d, i, id) ==
  LET doc == Doc(d) IN
  [ id |-> id,
    text |-> doc.content[i],
    vector |-> EmbeddingTable(doc.content[i]),
    metadata |-> [ url |-> doc.url, title |-> doc.title, chunkIndex |-> i - 1,
                   totalChunks |-> Len(doc.content), ageDays |-> doc.ageDays,
                   wordCount |-> Len(doc.content[i]),
                   isManuallyAdded |-> doc.isManuallyAdded ] ]

MkResult(chunk, sim) ==
  [ id |-> chunk.id, text |-> chunk.text, vector |-> chunk.vector,
    similarity |-> sim, metadata |-> chunk.metadata, relevanceBoost |-> 0 ]

RECURSIVE InsertDesc(_, _)
\* r goes behind every element that does not compare below it (a stable sort)
InsertDesc(r, sorted) ==
  IF sorted = <<>> THEN <<r>>
  ELSE IF Head(sorted).similarity >= r.similarity
       THEN <<Head(sorted)>> \o InsertDesc(r, Tail(sorted))
       ELSE <<r>> \o sorted

RECURSIVE SortInto(_, _)
SortInto(s, acc) == IF s = <<>> THEN acc ELSE SortInto(Tail(s), InsertDesc(Head(s), acc))

\* results.sort((a, b) => b.similarity - a.similarity)
SortBySimilarityDesc(results) == SortInto(results, <<>>)

(* The effects one call threads through its steps:                         *)
(*   svc     EmbeddingService.embeddingCache (texts)                       *)
(*   emb     RAGEngine.embeddingCache (<<text, timestamp>>)                *)
(*   qInit   QdrantService.isInitialized                                   *)
(*   embedCalls, embedFailed   external embedding requests made / failed   *)
(*   qdrantInits, qdrantCalls  QdrantService.initialize attempts / client  *)
(*                             requests made                               *)
(*   log     what the call did, in order: the texts it had embedded, the   *)
(*           score thresholds its candidates were filtered with, the       *)
(*           strategies executeOptimizedSearch ran and what they found     *)
NewFx(svc, emb, qInit) ==
  [ svc |-> svc, emb |-> emb, qInit |-> qInit, embedCalls |-> 0,
    embedFailed |-> FALSE, qdrantInits |-> 0, qdrantCalls |-> 0, log |-> <<>> ]

\* fx with one more entry in its log
Logged(fx, op, strategy, text, threshold, ok, found) ==
  [fx EXCEPT !.log = Append(@, [ op |-> op, strategy |-> strategy, text |-> text,
                                 threshold |-> threshold, ok |-> ok,
                                 found |-> found ])]

\* EmbeddingService.createEmbedding
createEmbedding(fx, text, embOk) ==
  LET Asked(f) ==
        IF text \notin f.svc /\ ~embOk
        THEN [ ok |-> FALSE, val |-> <<>>,
               fx |-> [f EXCEPT !.embedCalls = @ + 1, !.embedFailed = TRUE] ]
        ELSE [ ok |-> TRUE, val |-> EmbeddingTable(text),
               fx |-> IF text \in f.svc THEN f
                      ELSE [f EXCEPT !.svc = @ \cup {text}, !.embedCalls = @ + 1] ]
  IN IF text = <<>> THEN [ok |-> FALSE, val |-> <<>>, fx |-> fx]
     ELSE Asked(Logged(fx, "embed", "none", text, 0, embOk \/ text \in fx.svc, 0))

\* RAGEngine.getCachedEmbedding
getCachedEmbedding(fx, text, embOk, now) ==
  LET Cached(r) ==
        IF r.ok
        THEN [r EXCEPT !.fx.emb = {e \in @ : e[1] # text} \cup {<<text, now>>}]
        ELSE r
  IN IF \E e \in fx.emb : e[1] = text /\ now - e[2] < cacheTimeout
     THEN [ ok |-> TRUE, val |-> EmbeddingTable(text),
            fx |-> Logged(fx, "embed", "none", text, 0, TRUE, 0) ]
     ELSE Cached(createEmbedding(fx, text, embOk))

\* QdrantService.initialize: never throws, reports a failure by returning false
qdrantInitialize(fx, up) ==
  [fx EXCEPT !.qInit = up, !.qdrantInits = @ + 1, !.qdrantCalls = @ + 1]

\* the "if (!this.isInitialized) await this.initialize()" opening of every
\* QdrantService method
qdrantEnsure(fx, up) == IF fx.qInit THEN fx ELSE qdrantInitialize(fx, up)

\* QdrantService.getStats: pointsCount, or -1 for the error object (no pointsCount)
qdrantGetStats(fx, up, points) ==
  LET f1 == qdrantEnsure(fx, up)
      f2 == qdrantEnsure(f1, up)
  IN [ val |-> IF up THEN Len(points) ELSE -1,
       fx |-> [f2 EXCEPT !.qdrantCalls = @ + 1] ]

\* the score_threshold QdrantService.searchVectors sends for a strategy
qdrantScoreThreshold(scoreThreshold, searchStrategy) ==
  CASE searchStrategy = "keyword" -> 300
    [] searchStrategy = "hybrid" -> (scoreThreshold * 8) \div 10
    [] searchStrategy = "contextual" -> (scoreThreshold * 9) \div 10
    [] OTHER -> scoreThreshold

\* QdrantService.searchVectors; the external service answers with the points
\* scoring at least score_threshold, best first, at most limit of them, without
\* their vectors
searchVectors(fx, up, points, queryVector, limit, scoreThreshold, searchStrategy) ==
  LET f1 == [qdrantEnsure(fx, up) EXCEPT !.qdrantCalls = @ + 1]
      thr == qdrantScoreThreshold(scoreThreshold, searchStrategy)
      Hits(scored) == SeqFilter(scored, {r \in Range(scored) : r.similarity >= thr})
      hits == Hits([i \in 1..Len(points) |->
                      MkResult([points[i] EXCEPT !.vector = <<>>],
                               cosineSimilarity(queryVector, points[i].vector).val)])
  IN IF up THEN [ ok |-> TRUE, val |-> Take(SortBySimilarityDesc(hits), limit),
                  fx |-> Logged(f1, "filter", searchStrategy, <<>>, thr, TRUE, Len(hits)) ]
     ELSE [ok |-> FALSE, val |-> <<>>, fx |-> f1]

\* RAGEngine.adjustThreshold: the threshold passes through the length, query
\* type and keyword count steps, then the caps
adjustThreshold(similarityThreshold, queryAnalysis) ==
  LET ByLength(t) == IF queryAnalysis.isShort THEN t - 150
                     ELSE IF queryAnalysis.isLong THEN t + 100
                     ELSE t
      ByType(t) == CASE queryAnalysis.type = "definition" -> t - 100
                     [] queryAnalysis.type = "how_to" -> t - 50
                     [] queryAnalysis.type = "troubleshooting" -> t - 80
                     [] queryAnalysis.type = "comparison" -> t + 50
                     [] OTHER -> t
      ByKeywords(t) == IF Len(queryAnalysis.keywords) > 3 THEN t + 50 ELSE t
      \* a keyword is one word and holds no blank
      hasMultiWordTerms == FALSE
      ByTerms(t) == IF hasMultiWordTerms THEN t - 100 ELSE t
  IN Max(100, Min(950, Min(ByTerms(ByKeywords(ByType(ByLength(similarityThreshold)))),
                           300)))

\* RAGEngine.semanticSearch, in-process branch: every error is caught and
\* answered with []
semanticSearch(fx, knowledgeBase, similarityThreshold, query, topK, embOk) ==
  LET Kept(similarities) ==
        SeqFilter(similarities,
                  {r \in Range(similarities) : r.similarity >= similarityThreshold})
      Answer(e) ==
        IF ~e.ok THEN [val |-> <<>>, fx |-> e.fx]
        ELSE IF knowledgeBase = <<>> THEN [val |-> <<>>, fx |-> e.fx]
        ELSE IF \E i \in 1..Len(knowledgeBase) :
                   ~cosineSimilarity(e.val, knowledgeBase[i].vector).ok
             THEN [val |-> <<>>, fx |-> e.fx]
        ELSE [ val |-> Take(SortBySimilarityDesc(
                         Kept([i \in 1..Len(knowledgeBase) |->
                                 MkResult(knowledgeBase[i],
                                          cosineSimilarity(e.val,
                                                           knowledgeBase[i].vector).val)])),
                         topK),
               fx |-> Logged(e.fx, "filter", "semantic", <<>>, similarityThreshold,
                             TRUE, 0) ]
  IN Answer(createEmbedding(fx, query, embOk))

(* RAGEngine.keywordSearch.  With the external backend in use it returns   *)
(* [], and so it does on an empty knowledge base.  Otherwise the scoring   *)
(* callback reads `term` outside the loop that declares it: a              *)
(* ReferenceError on the first chunk.                                      *)
keywordSearch(useQdrantNow, knowledgeBase, query, topK) ==
  IF useQdrantNow THEN [ok |-> TRUE, val |-> <<>>]
  ELSE IF knowledgeBase = <<>> THEN [ok |-> TRUE, val |-> <<>>]
  ELSE [ok |-> FALSE, val |-> <<>>]

\* RAGEngine.optimizedKeywordSearch: keywordSearch's throw passes through; its
\* results are boosted by query type and sorted again
optimizedKeywordSearch(useQdrantNow, knowledgeBase, query, topK, queryAnalysis) ==
  LET Boost(r) ==
        IF r.text = <<>> THEN 1000
        ELSE IF queryAnalysis.type = "troubleshooting"
                  /\ IncludesAny(r.text, {<<"error">>, <<"problem">>})
             THEN 1200
        ELSE IF queryAnalysis.type = "definition"
                  /\ IncludesAny(r.text, {<<"is">>, <<"means">>})
             THEN 1100
        ELSE 1000
      Boosted(r) == [r EXCEPT !.similarity = (@ * Boost(r)) \div Scale]
      Answer(results) ==
        IF ~results.ok THEN results
        ELSE [ ok |-> TRUE,
               val |-> SortBySimilarityDesc(
                         [i \in 1..Len(results.val) |-> Boosted(results.val[i])]) ]
  IN Answer(keywordSearch(useQdrantNow, knowledgeBase, query, topK))

(* RAGEngine.hybridSearch, in-process branch.  semanticSearch is started   *)
(* first (its embedding request goes out), then keywordSearch runs inside  *)
(* the same try block: when it throws the catch answers [].                *)
hybridSearch(fx, knowledgeBase, similarityThreshold, query, topK, embOk) ==
  LET Of(list, id) == {r \in Range(list) : r.id = id}
      Some(S) == CHOOSE r \in S : TRUE
      Part(S, weight) == IF S # {} THEN (Some(S).similarity * weight) \div 10 ELSE 0
      Pick(S, T) == IF S # {} THEN Some(S) ELSE Some(T)
      Merged(S, T) == [Pick(S, T) EXCEPT !.similarity = Part(S, 7) + Part(T, 3)]
      Combined(sem, kw, ids) ==
        [i \in 1..Len(ids) |-> Merged(Of(sem, ids[i]), Of(kw, ids[i]))]
      Ids(sem, kw) == Dedup([i \in 1..Len(sem) |-> sem[i].id]
                            \o [i \in 1..Len(kw) |-> kw[i].id])
      Answer(sem, kw) ==
        IF ~kw.ok THEN [val |-> <<>>, fx |-> sem.fx]
        ELSE [ val |-> Take(SortBySimilarityDesc(
                              Combined(sem.val, kw.val, Ids(sem.val, kw.val))), topK),
               fx |-> sem.fx ]
  IN Answer(semanticSearch(fx, knowledgeBase, similarityThreshold, query, topK * 2, embOk),
            keywordSearch(FALSE, knowledgeBase, query, topK * 2))


\* RAGEngine.enhanceQueryWithContext
enhanceQueryWithContext(query, conversationHistory) ==
  LET Recent(n) == Flatten(SubSeq(conversationHistory, Max(1, n - 2), n))
      ContextTerms(recent) ==
        Take(SeqFilter(recent, {w \in Range(recent) : Len(w) > 3}), 10)
  IN IF conversationHistory = <<>> THEN query
     ELSE query \o ContextTerms(Recent(Len(conversationHistory)))

(* RAGEngine.contextualSearch: errors are caught and answered with [].     *)
(* With the external backend the threshold handed over is 0.9 of the       *)
(* configured one, and searchVectors takes 0.9 of that again.              *)
contextualSearch(fx, useQdrantNow, up, points, knowledgeBase, similarityThreshold, query, conversationHistory, topK, embOk) ==
  LET Caught(r) == [val |-> r.val, fx |-> r.fx]
      Vectors(e) ==
        IF ~e.ok THEN [val |-> <<>>, fx |-> e.fx]
        ELSE Caught(searchVectors(e.fx, up, points, e.val, topK,
                                  (similarityThreshold * 9) \div 10, "contextual"))
      Answer(contextQuery) ==
        IF useQdrantNow THEN Vectors(createEmbedding(fx, contextQuery, embOk))
        ELSE hybridSearch(fx, knowledgeBase, similarityThreshold, contextQuery, topK,
                          embOk)
  IN Answer(enhanceQueryWithContext(query, conversationHistory))

\* RAGEngine.optimizedSemanticSearch / optimizedHybridSearch, external branch
optimizedQdrantSearch(fx, up, points, similarityThreshold, query, topK, queryAnalysis, searchStrategy, embOk, now) ==
  LET Vectors(e) ==
        IF ~e.ok THEN [ok |-> FALSE, val |-> <<>>, fx |-> e.fx]
        ELSE searchVectors(e.fx, up, points, e.val, topK,
                           adjustThreshold(similarityThreshold, queryAnalysis),
                           searchStrategy)
  IN Vectors(getCachedEmbedding(fx, query, embOk, now))

(* RAGEngine.executeOptimizedSearch.  env is the engine state the call     *)
(* reads: [useQdrant, up, points, knowledgeBase, similarityThreshold,      *)
(* embOk, now].                                                            *)
executeOptimizedSearch(fx, env, query, strategy, topK, queryAnalysis) ==
  LET \* the in-process strategies catch their errors themselves
      Caught(r) == [ok |-> TRUE, val |-> r.val, fx |-> r.fx]
      Pure(r) == [ok |-> r.ok, val |-> r.val, fx |-> fx]
      Ran(r) == [r EXCEPT !.fx = Logged(@, "execute", strategy, query, 0, r.ok,
                                        Len(r.val))]
  IN Ran(
     CASE strategy = "semantic" ->
            IF env.useQdrant
            THEN optimizedQdrantSearch(fx, env.up, env.points, env.similarityThreshold,
                                       query, topK, queryAnalysis, "semantic",
                                       env.embOk, env.now)
            ELSE Caught(semanticSearch(fx, env.knowledgeBase, env.similarityThreshold,
                                       query, topK, env.embOk))
       [] strategy = "keyword" ->
            Pure(optimizedKeywordSearch(env.useQdrant, env.knowledgeBase, query, topK,
                                        queryAnalysis))
       [] strategy = "contextual" ->
            Caught(contextualSearch(fx, env.useQdrant, env.up, env.points,
                                    env.knowledgeBase, env.similarityThreshold,
                                    query, <<>>, topK, env.embOk))
       [] OTHER ->
            IF env.useQdrant
            THEN optimizedQdrantSearch(fx, env.up, env.points, env.similarityThreshold,
                                       query, topK, queryAnalysis, "hybrid",
                                       env.embOk, env.now)
            ELSE Caught(hybridSearch(fx, env.knowledgeBase, env.similarityThreshold,
                                     query, topK, env.embOk)))

\* RAGEngine.determineOptimalStrategy
determineOptimalStrategy(queryAnalysis) ==
  IF queryAnalysis.type = "definition" THEN "semantic"
  ELSE IF queryAnalysis.type = "how_to" THEN "hybrid"
  ELSE IF queryAnalysis.type = "troubleshooting" THEN "keyword"
  ELSE IF queryAnalysis.isShort THEN "semantic"
  ELSE "hybrid"

\* all three synonyms RAGEngine.expandQuery lists for a keyword
ragSynonyms(word) ==
  CASE word = "data" -> << <<"information">>, <<"dataset">>, <<"records">> >>
    [] word = "catalog" -> << <<"directory">>, <<"registry">>, <<"inventory">> >>
    [] word = "governance" -> << <<"management">>, <<"control">>, <<"oversight">> >>
    [] word = "security" -> << <<"protection">>, <<"safety">>, <<"privacy">> >>
    [] word = "analytics" -> << <<"analysis">>, <<"insights">>, <<"metrics">> >>
    [] word = "dashboard" -> << <<"interface">>, <<"panel">>, <<"console">> >>
    [] word = "api" -> << <<"interface">>, <<"endpoint">>, <<"service">> >>
    [] word = "database" -> << <<"db">>, <<"data", "store">>, <<"repository">> >>
    [] word = "table" -> << <<"dataset">>, <<"collection">>, <<"entity">> >>
    [] word = "column" -> << <<"field">>, <<"attribute">>, <<"property">> >>
    [] word = "row" -> << <<"record">>, <<"entry">>, <<"item">> >>
    [] word = "query" -> << <<"search">>, <<"request">>, <<"question">> >>
    [] word = "report" -> << <<"summary">>, <<"analysis">>, <<"document">> >>
    [] word = "user" -> << <<"person">>, <<"account">>, <<"profile">> >>
    [] word = "role" -> << <<"permission">>, <<"access">>, <<"privilege">> >>
    [] word = "admin" -> << <<"administrator">>, <<"manager">>, <<"supervisor">> >>
    [] word = "config" -> << <<"configuration">>, <<"settings">>, <<"setup">> >>
    [] word = "deploy" -> << <<"deployment">>, <<"release">>, <<"publish">> >>
    [] word = "monitor" -> << <<"tracking">>, <<"observability">>, <<"surveillance">> >>
    [] word = "alert" -> << <<"notification">>, <<"warning">>, <<"alarm">> >>
    [] OTHER -> <<>>

\* RAGEngine.expandQuery: keywords, their synonyms, the type's terms; the query
\* argument is not read
expandQuery(query, queryAnalysis) ==
  LET kws == queryAnalysis.keywords
      own == [i \in 1..Len(kws) |-> <<kws[i]>>]
      syn == Flatten([i \in 1..Len(kws) |-> ragSynonyms(kws[i])])
      typeTerms ==
        CASE queryAnalysis.type = "definition" ->
               << <<"what", "is">>, <<"meaning">>, <<"explanation">> >>
          [] queryAnalysis.type = "how_to" ->
               << <<"steps">>, <<"process">>, <<"procedure">>, <<"tutorial">> >>
          [] queryAnalysis.type = "troubleshooting" ->
               << <<"error">>, <<"issue">>, <<"problem">>, <<"fix">>, <<"solution">> >>
          [] queryAnalysis.type = "comparison" ->
               << <<"vs">>, <<"versus">>, <<"difference">>, <<"compare">> >>
          [] OTHER -> <<>>
  IN Flatten(Dedup(own \o syn \o typeTerms))

\* RAGEngine.calculateKeywordDensity, in thousandths
calculateKeywordDensity(text, keywords) ==
  LET totalWords == Max(Len(text), 1)
      Matches(k) == Cardinality({i \in 1..Len(text) : WordHas(text[i], k)})
      RECURSIVE Sum(_)
      Sum(ks) == IF ks = <<>> THEN 0 ELSE Matches(Head(ks)) + Sum(Tail(ks))
  IN Min((Sum(keywords) * Scale) \div totalWords, 100)

(* RAGEngine.rerankResults: a list of at most one result is returned as it *)
(* is; otherwise both query embeddings are fetched (a failure throws) and  *)
(* every result is re-scored and the list sorted.                          *)
rerankResults(fx, results, originalQuery, expandedQuery, queryAnalysis, embOk, now) ==
  LET Thrown(effects) == [ok |-> FALSE, val |-> <<>>, fx |-> effects]
      Mix(x, weight, y) == (x * weight + y * (10 - weight)) \div 10
      Blend(similarity, originalSimilarity, expandedSimilarity, keywordDensity) ==
        (Mix(Mix(similarity, 7, originalSimilarity), 8, expandedSimilarity) * 9
           + keywordDensity) \div 10
      positionBoost(chunkIndex) ==
        IF chunkIndex # 0 THEN Max(800, Scale - chunkIndex * 100) ELSE Scale
      Rescore(r, originalEmbedding, expandedEmbedding) ==
        [r EXCEPT !.similarity =
           Min((Blend(r.similarity,
                      cosineSimilarity(originalEmbedding, r.vector).val,
                      cosineSimilarity(expandedEmbedding, r.vector).val,
                      calculateKeywordDensity(r.text, queryAnalysis.keywords))
                  * positionBoost(r.metadata.chunkIndex)) \div Scale,
               Scale)]
      Scored(e1, e2) ==
        IF ~e2.ok THEN Thrown(e2.fx)
        ELSE IF \E i \in 1..Len(results) :
                   ~cosineSimilarity(e1.val, results[i].vector).ok
             THEN Thrown(e2.fx)
        ELSE [ ok |-> TRUE,
               val |-> SortBySimilarityDesc(
                         [i \in 1..Len(results) |-> Rescore(results[i], e1.val, e2.val)]),
               fx |-> e2.fx ]
      Embedded(e1) ==
        IF ~e1.ok THEN Thrown(e1.fx)
        ELSE Scored(e1, getCachedEmbedding(e1.fx, expandedQuery, embOk, now))
  IN IF Len(results) <= 1 THEN [ok |-> TRUE, val |-> results, fx |-> fx]
     ELSE Embedded(getCachedEmbedding(fx, originalQuery, embOk, now))


\* a product of two factors given in thousandths
Mul(a, b) == (a * b) \div Scale

\* RAGEngine.getTextWords: the set of words longer than two characters
getTextWords(text) == {w \in Range(text) \ Punct : Len(w) > 2}

\* RAGEngine.calculateJaccardSimilarity, in thousandths
calculateJaccardSimilarity(set1, set2) ==
  IF set1 \cup set2 = {} THEN 0
  ELSE (Cardinality(set1 \cap set2) * Scale) \div Cardinality(set1 \cup set2)

\* RAGEngine.calculateMaxTextSimilarity
calculateMaxTextSimilarity(text, existingResults) ==
  IF text = <<>> \/ existingResults = <<>> THEN 0
  ELSE LET sims == { calculateJaccardSimilarity(getTextWords(text),
                                                getTextWords(existingResults[i].text)) :
                       i \in {k \in 1..Len(existingResults) :
                                existingResults[k].text # <<>>} }
       IN IF sims = {} THEN 0 ELSE CHOOSE m \in sims : \A x \in sims : x <= m

textSimilarityThreshold == 700
maxPerSource == 2

RECURSIVE DiversityLoop(_, _, _)
\* the for-loop of applyResultDiversity over the sorted results
DiversityLoop(sortedResults, diversifiedResults, usedUrlPaths) ==
  IF sortedResults = <<>> THEN diversifiedResults
  ELSE LET result == Head(sortedResults)
           sourceDomain == extractDomain(result.metadata.url)
           sourceCount ==
             Cardinality({i \in 1..Len(diversifiedResults) :
                            extractDomain(diversifiedResults[i].metadata.url)
                              = sourceDomain})
           urlPath == extractUrlPath(result.metadata.url)
           shouldInclude ==
             /\ sourceCount < maxPerSource
             /\ urlPath \notin usedUrlPaths
             /\ calculateMaxTextSimilarity(result.text, diversifiedResults)
                  <= textSimilarityThreshold
       IN IF ~shouldInclude
          THEN DiversityLoop(Tail(sortedResults), diversifiedResults, usedUrlPaths)
          ELSE IF Len(diversifiedResults) + 1 >= maxChunksPerQuery
               THEN Append(diversifiedResults, result)
               ELSE DiversityLoop(Tail(sortedResults),
                                  Append(diversifiedResults, result),
                                  usedUrlPaths \cup {urlPath})

\* RAGEngine.applyResultDiversity: up to three results pass unexamined
applyResultDiversity(results) ==
  IF Len(results) <= 3 THEN results
  ELSE DiversityLoop(SortBySimilarityDesc(results), <<>>, {})

\* the first entry of contentTypeBoosts whose pattern the title or the URL holds
contentTypeBoost(title, url) ==
  LET Has(pat) == Includes(title, <<pat>>) \/ UrlIncludes(url, pat) IN
  CASE Has("getting-started") -> 1150
    [] Has("quick-start") -> 1150
    [] Has("tutorial") -> 1100
    [] Has("guide") -> 1100
    [] Has("reference") -> 1050
    [] Has("api") -> 1050
    [] Has("troubleshooting") -> 1100
    [] Has("faq") -> 1050
    [] Has("examples") -> 1080
    [] Has("best-practices") -> 1080
    [] OTHER -> Scale

(* RAGEngine.applyMetadataBoosts: the boost passes through the source,     *)
(* content type, query type, freshness, length and position steps in turn  *)
applyMetadataBoosts(result, currentBoost, queryAnalysis) ==
  LET Source(boost, title, url, domain) ==
        IF \/ \E i \in 1..(Len(domain) - 1) : domain[i] = "docs"
           \/ \E i \in 1..Len(domain) : domain[i] = "documentation"
        THEN Mul(boost, 1200)
        ELSE IF IsInfixSeq(<<"github", "com">>, domain) /\ UrlHasDir(url, "docs")
             THEN Mul(boost, 1150)
        ELSE IF IncludesAny(title, {<<"official">>, <<"documentation">>})
             THEN Mul(boost, 1100)
        ELSE boost
      QueryType(boost, title, url) ==
        CASE queryAnalysis.type = "how_to" ->
               IF \/ IncludesAny(title, {<<"setup">>, <<"configure">>, <<"install">>})
                  \/ \E seg \in {"setup", "configuration", "install"} :
                        UrlHasDir(url, seg)
               THEN Mul(boost, 1200) ELSE boost
          [] queryAnalysis.type = "troubleshooting" ->
               IF \/ IncludesAny(title, {<<"error">>, <<"troubleshoot">>, <<"debug">>})
                  \/ \E seg \in {"troubleshooting", "errors"} : UrlHasDir(url, seg)
               THEN Mul(boost, 1250) ELSE boost
          [] queryAnalysis.type = "definition" ->
               IF \/ IncludesAny(title, {<<"overview">>, <<"introduction">>,
                                         <<"concepts">>})
                  \/ \E seg \in {"concepts", "overview"} : UrlHasDir(url, seg)
               THEN Mul(boost, 1150) ELSE boost
          [] OTHER -> boost
      Freshness(boost, daysOld) ==
        IF daysOld < 7 THEN Mul(boost, 1100)
        ELSE IF daysOld < 30 THEN Mul(boost, 1050)
        ELSE IF daysOld > 365 THEN Mul(boost, 950)
        ELSE boost
      Length(boost, wordCount) ==
        IF wordCount > 200 /\ wordCount < 2000 THEN Mul(boost, 1050)
        ELSE IF wordCount < 50 THEN Mul(boost, 900)
        ELSE boost
      Position(boost, metadata) ==
        IF metadata.chunkIndex = 0 /\ metadata.totalChunks > 1 THEN Mul(boost, 1100)
        ELSE IF metadata.chunkIndex < 3 /\ metadata.totalChunks > 5
             THEN Mul(boost, 1050)
        ELSE boost
      Boosts(metadata) ==
        Position(
          Length(
            Freshness(
              QueryType(
                Mul(Source(currentBoost, metadata.title, metadata.url,
                           extractDomain(metadata.url)),
                    contentTypeBoost(metadata.title, metadata.url)),
                metadata.title, metadata.url),
              metadata.ageDays),
            metadata.wordCount),
          metadata)
  IN Boosts(result.metadata)


\* the boost applyQueryTypeRanking gives for the query type
typeBoost(text, queryAnalysis) ==
  LET kwHit == \E i \in 1..Len(queryAnalysis.keywords) :
                  Includes(text, <<queryAnalysis.keywords[i]>>)
  IN CASE queryAnalysis.type = "definition" ->
            LET b == IF IncludesAny(text, { <<"is">>, <<"means">>, <<"refers", "to">>,
                                            <<"definition">>, <<"defined", "as">> })
                     THEN 1400 ELSE Scale
            IN IF kwHit THEN Mul(b, 1200) ELSE b
       [] queryAnalysis.type = "how_to" ->
            LET b == IF IncludesAny(text, { <<"step">>, <<"process">>, <<"procedure">>,
                                            <<"tutorial">>, <<"guide">>,
                                            <<"instructions">> })
                     THEN 1300 ELSE Scale
            IN IF IncludesAny(text, { <<"create">>, <<"build">>, <<"configure">>,
                                      <<"setup">>, <<"install">> })
               THEN Mul(b, 1150) ELSE b
       [] queryAnalysis.type = "troubleshooting" ->
            IF IncludesAny(text, { <<"error">>, <<"issue">>, <<"problem">>, <<"fix">>,
                                   <<"resolve">>, <<"debug">> })
            THEN 1350 ELSE Scale
       [] queryAnalysis.type = "comparison" ->
            IF IncludesAny(text, { <<"vs">>, <<"versus">>, <<"compare">>,
                                   <<"difference">>, <<"better">>, <<"advantages">> })
            THEN 1250 ELSE Scale
       [] queryAnalysis.type = "example" ->
            IF IncludesAny(text, { <<"example">>, <<"sample">>, <<"demo">>,
                                   <<"for", "instance">>, <<"such", "as">> })
            THEN 1200 ELSE Scale
       [] OTHER -> Scale

\* boostSimilarity without the cap at 1.0
boostSimilarityUncapped(result, boost) ==
  [result EXCEPT !.similarity = Mul(result.similarity, boost),
                 !.relevanceBoost = boost]

\* result.similarity = Math.min(result.similarity * boost, 1.0), with the boost
\* kept as relevanceBoost
boostSimilarity(result, boost) ==
  [result EXCEPT !.similarity = Min(Mul(result.similarity, boost), Scale),
                 !.relevanceBoost = boost]

(* The map callback of applyQueryTypeRanking.  The analysis record has no  *)
(* field `original`, so the phrase looked for is the empty string, which   *)
(* every text includes.                                                    *)
rankResult(result, queryAnalysis) ==
  LET query == IF "original" \in DOMAIN queryAnalysis THEN queryAnalysis.original
               ELSE <<>>
      Exact(boost, text) == IF Includes(text, query) THEN Mul(boost, 1300) ELSE boost
      Keywords(boost, keywordMatches) ==
        IF keywordMatches > 1 THEN Mul(boost, Scale + keywordMatches * 100) ELSE boost
  IN IF result.text = <<>> THEN result
     ELSE boostSimilarity(
            result,
            applyMetadataBoosts(
              result,
              Keywords(Exact(typeBoost(result.text, queryAnalysis), result.text),
                       Cardinality({i \in 1..Len(queryAnalysis.keywords) :
                                      Includes(result.text,
                                               <<queryAnalysis.keywords[i]>>)})),
              queryAnalysis))

\* applyQueryTypeRanking without the sort that follows the map
applyQueryTypeRankingUnsorted(results, queryAnalysis) ==
  [i \in 1..Len(results) |-> rankResult(results[i], queryAnalysis)]

\* RAGEngine.applyQueryTypeRanking: every result is ranked, the list sorted again
applyQueryTypeRanking(results, queryAnalysis) ==
  SortBySimilarityDesc([i \in 1..Len(results) |-> rankResult(results[i], queryAnalysis)])

\* the sourceFilter values that mean "no filter": null and 'all'
NoFilter == {"null", "all"}

\* postProcessResults without the source filter
postProcessResultsUnfiltered(results, queryAnalysis, sourceFilter) ==
  applyQueryTypeRanking(applyResultDiversity(results), queryAnalysis)

\* RAGEngine.postProcessResults
postProcessResults(results, queryAnalysis, sourceFilter) ==
  LET filtered ==
        IF sourceFilter \notin NoFilter
        THEN SeqFilter(results,
                       {r \in Range(results) :
                          extractBrandName(r.metadata.url) = sourceFilter})
        ELSE results
  IN applyQueryTypeRanking(applyResultDiversity(filtered), queryAnalysis)

\* RAGEngine.generateCacheKey
generateCacheKey(query, strategy, sourceFilter) ==
  <<query, strategy, IF sourceFilter = "null" THEN "all" ELSE sourceFilter>>

\* getCachedResult with the age test the wrong way round: only an entry older
\* than cacheTimeout is handed back
getCachedResultExpired(queryCache, cacheKey, now) ==
  IF \E i \in 1..Len(queryCache) :
        queryCache[i].key = cacheKey /\ now - queryCache[i].timestamp >= cacheTimeout
  THEN [ hit |-> TRUE,
         results |-> queryCache[CHOOSE i \in 1..Len(queryCache) :
                                  queryCache[i].key = cacheKey].results ]
  ELSE [hit |-> FALSE, results |-> <<>>]

(* RAGEngine.queryCache is a Map: the sequence of its entries [key,        *)
(* results, timestamp] in insertion order, one entry a key.                *)
(* getCachedResult yields [hit, results].                                  *)
getCachedResult(queryCache, cacheKey, now) ==
  IF \E i \in 1..Len(queryCache) :
        queryCache[i].key = cacheKey /\ now - queryCache[i].timestamp < cacheTimeout
  THEN [ hit |-> TRUE,
         results |-> queryCache[CHOOSE i \in 1..Len(queryCache) :
                                  queryCache[i].key = cacheKey].results ]
  ELSE [hit |-> FALSE, results |-> <<>>]

cacheMaxEntries == 100
cacheEvictCount == 20

\* OldestEntries with the comparator reversed: the entries written last go
RECURSIVE NewestEntries(_, _)
NewestEntries(entries, n) ==
  IF n = 0 \/ entries = <<>> THEN {}
  ELSE LET Picked(i) ==
             {entries[i].key}
               \cup NewestEntries(SubSeq(entries, 1, i - 1)
                                    \o SubSeq(entries, i + 1, Len(entries)), n - 1)
       IN Picked(CHOOSE i \in 1..Len(entries) :
                   \A j \in 1..Len(entries) :
                      \/ entries[i].timestamp > entries[j].timestamp
                      \/ entries[i].timestamp = entries[j].timestamp /\ i <= j)

RECURSIVE OldestEntries(_, _)
(* The keys of entries.sort((a, b) => a[1].timestamp - b[1].timestamp)     *)
(* .slice(0, n): the sort is stable, entries of one timestamp keep their   *)
(* insertion order.                                                        *)
OldestEntries(entries, n) ==
  IF n = 0 \/ entries = <<>> THEN {}
  ELSE LET Picked(i) ==
             {entries[i].key}
               \cup OldestEntries(SubSeq(entries, 1, i - 1)
                                    \o SubSeq(entries, i + 1, Len(entries)), n - 1)
       IN Picked(CHOOSE i \in 1..Len(entries) :
                   \A j \in 1..Len(entries) :
                      \/ entries[i].timestamp < entries[j].timestamp
                      \/ entries[i].timestamp = entries[j].timestamp /\ i <= j)

(* RAGEngine.cacheResult: Map.set replaces the entry of a key where it is, *)
(* a new key goes to the end.                                              *)
cacheResult(queryCache, cacheKey, results, now) ==
  LET entry == [key |-> cacheKey, results |-> results, timestamp |-> now]
      Without(entries, gone) ==
        LET kept == {i \in 1..Len(entries) : entries[i].key \notin gone}
        IN [k \in 1..Cardinality(kept) |->
              entries[CHOOSE i \in kept : Cardinality({j \in kept : j <= i}) = k]]
      Evicted(entries) ==
        IF Len(entries) > cacheMaxEntries
        THEN Without(entries, OldestEntries(entries, cacheEvictCount))
        ELSE entries
  IN Evicted(IF \E i \in 1..Len(queryCache) : queryCache[i].key = cacheKey
             THEN [i \in 1..Len(queryCache) |->
                     IF queryCache[i].key = cacheKey THEN entry ELSE queryCache[i]]
             ELSE Append(queryCache, entry))


(* A query argument is [kind, text]: kind "string" with the text's words   *)
(* (<<>> is the empty string), or "missing" (undefined / null) or "number" *)
(* (a value that is not a string), both with text <<>>.                    *)
StringQuery(text) == [kind |-> "string", text |-> text]

\* the validation without "!query": only the type is tested
InvalidQueryTypeOnly(query) == query.kind # "string"

\* !query || typeof query !== 'string'
InvalidQuery(query) == query.kind # "string" \/ query.text = <<>>

\* RAGEngine.initialize: the external service reports a failed start by its
\* return value, which is not read, so the catch branch is never entered
initialize(fx, useQdrantNow, up) ==
  IF useQdrantNow THEN qdrantInitialize(fx, up) ELSE fx

\* what a search call hands back: the list returned, how the call ended, the
\* effects it had and the result cache it leaves
SearchReturn(val, outcome, fx, queryCache, fallbackUsed) ==
  [ val |-> val, outcome |-> outcome, fx |-> fx, queryCache |-> queryCache,
    fallbackUsed |-> fallbackUsed ]

(* RAGEngine.search over the engine state st = [useQdrant, isInitialized,  *)
(* qInit, up, points, knowledgeBase, similarityThreshold, queryCache, emb, *)
(* svc, now].  topK = 0 stands for the omitted argument.  outcome is       *)
(*   "invalid"   the query failed validation                               *)
(*   "empty"     the store holds nothing                                   *)
(*   "hit"       answered from the result cache                            *)
(*   "caught"    an error reached the catch-all, which answers []          *)
(*   "computed"  the pipeline ran to its end and cached its result         *)
\* search, its last step: the post-processed list is cached and returned
searchCached(st, cacheKey, needFallback, fx, results) ==
  SearchReturn(results, "computed", fx,
               cacheResult(st.queryCache, cacheKey, results, st.now), needFallback)

\* search, after the re-ranking rr of what the strategies found
searchReranked(st, queryAnalysis, sourceFilter, cacheKey, needFallback, rr) ==
  IF ~rr.ok
  THEN SearchReturn(<<>>, "caught", rr.fx, st.queryCache, needFallback)
  ELSE searchCached(st, cacheKey, needFallback, rr.fx,
                    postProcessResults(rr.val, queryAnalysis, sourceFilter))

\* search, after the chosen strategy answered r1 and the fallback strategy r2
\* (r2 = r1 when no fallback ran): in-process results are re-ranked
searchFound(st, queryOptimization, sourceFilter, embOk, cacheKey, needFallback, r1, r2) ==
  LET found == IF r2.ok /\ r2.val # <<>> THEN r2.val ELSE r1.val
  IN IF ~r2.ok
     THEN SearchReturn(<<>>, "caught", r2.fx, st.queryCache, TRUE)
     ELSE searchReranked(st, queryOptimization.analysis, sourceFilter, cacheKey,
                         needFallback,
                         IF st.useQdrant THEN [ok |-> TRUE, val |-> found, fx |-> r2.fx]
                         ELSE rerankResults(r2.fx, found, queryOptimization.optimized,
                                            expandQuery(queryOptimization.optimized,
                                                        queryOptimization.analysis),
                                            queryOptimization.analysis, embOk, st.now))

\* searchExecuted asking the fallback strategy after every answer
searchExecutedAlways(st, env, queryOptimization, contextualQuery, k, sourceFilter, cacheKey, r1) ==
  IF ~r1.ok
  THEN SearchReturn(<<>>, "caught", r1.fx, st.queryCache, FALSE)
  ELSE searchFound(st, queryOptimization, sourceFilter, env.embOk, cacheKey, TRUE, r1,
                   executeOptimizedSearch(r1.fx, env, contextualQuery,
                                          IF st.useQdrant THEN "semantic" ELSE "keyword",
                                          k, queryOptimization.analysis))

\* search, after the chosen strategy answered r1: an empty answer is asked again
\* of the fallback strategy
searchExecuted(st, env, queryOptimization, contextualQuery, k, sourceFilter, cacheKey, r1) ==
  LET fallbackStrategy == IF st.useQdrant THEN "semantic" ELSE "keyword"
      needFallback == r1.ok /\ r1.val = <<>>
  IN IF ~r1.ok
     THEN SearchReturn(<<>>, "caught", r1.fx, st.queryCache, FALSE)
     ELSE searchFound(st, queryOptimization, sourceFilter, env.embOk, cacheKey,
                      needFallback, r1,
                      IF needFallback
                      THEN executeOptimizedSearch(r1.fx, env, contextualQuery,
                                                  fallbackStrategy, k,
                                                  queryOptimization.analysis)
                      ELSE r1)

\* search, from the result cache lookup on: queryOptimization is the
\* preprocessed query, fx the effects so far
searchOptimized(st, fx, queryOptimization, strategy, conversationHistory, k, sourceFilter, embOk) ==
  LET cacheKey == generateCacheKey(queryOptimization.optimized, strategy, sourceFilter)
      cachedResult == getCachedResult(st.queryCache, cacheKey, st.now)
      contextualQuery == generateContextualQuery(queryOptimization.optimized,
                                                 conversationHistory)
      finalStrategy == IF strategy = "auto"
                       THEN determineOptimalStrategy(queryOptimization.analysis)
                       ELSE strategy
      env == [ useQdrant |-> st.useQdrant, up |-> st.up, points |-> st.points,
               knowledgeBase |-> st.knowledgeBase,
               similarityThreshold |-> st.similarityThreshold,
               embOk |-> embOk, now |-> st.now ]
  IN IF cachedResult.hit
     THEN SearchReturn(cachedResult.results, "hit", fx, st.queryCache, FALSE)
     ELSE searchExecuted(st, env, queryOptimization, contextualQuery, k, sourceFilter,
                         cacheKey,
                         executeOptimizedSearch(fx, env, contextualQuery, finalStrategy,
                                                k, queryOptimization.analysis))

search(st, query, strategy, conversationHistory, topK, sourceFilter, embOk) ==
  LET fx0 == NewFx(st.svc, st.emb, st.qInit)
      fx1 == IF st.isInitialized THEN fx0 ELSE initialize(fx0, st.useQdrant, st.up)
      k == IF topK = 0 THEN maxChunksPerQuery ELSE topK
      stats == qdrantGetStats(fx1, st.up, st.points)
      fx2 == IF st.useQdrant THEN stats.fx ELSE fx1
  IN IF InvalidQuery(query)
     THEN SearchReturn(<<>>, "invalid", fx1, st.queryCache, FALSE)
     ELSE IF st.useQdrant /\ stats.val = 0
     THEN SearchReturn(<<>>, "empty", fx2, st.queryCache, FALSE)
     ELSE IF ~st.useQdrant /\ st.knowledgeBase = <<>>
     THEN SearchReturn(<<>>, "empty", fx2, st.queryCache, FALSE)
     ELSE searchOptimized(st, fx2, preprocessQuery(query.text), strategy,
                          conversationHistory, k, sourceFilter, embOk)


(* --------------------------- CitationManager --------------------------- *)
EmptyCitations ==
  [ citations |-> <<>>,
    summary |-> [totalSources |-> 0, confidence |-> 0, coverage |-> 0] ]

(* query.split(/\s+/) keeps a question mark glued to the word before it,   *)
(* and such a word occurs in no text: the words of the query a text can    *)
(* hold are those not followed by "?".                                     *)
extractMatchingKeywords(text, query) ==
  LET idx == {i \in 1..Len(query) :
                /\ query[i] \notin Punct
                /\ (i = Len(query) \/ query[i + 1] \notin Punct)
                /\ Len(query[i]) > 2
                /\ Includes(text, <<query[i]>>)}
  IN SeqFilter(query, {query[i] : i \in idx})

\* CitationManager.calculateConfidence, in thousandths
calculateConfidence(result, query, queryAnalysis) ==
  LET c0 == Max(0, Min(result.similarity, Scale))
      text == result.text
      c1 == CASE queryAnalysis.type = "definition"
                   /\ IncludesAny(text, { <<"is">>, <<"are">>, <<"means">>,
                                          <<"refers", "to">>, <<"defined", "as">> })
                   -> c0 + 200
              [] queryAnalysis.type = "how_to"
                   /\ IncludesAny(text, { <<"step">>, <<"process">>, <<"procedure">>,
                                          <<"method">>, <<"way", "to">> })
                   -> c0 + 150
              [] queryAnalysis.type = "troubleshooting"
                   /\ IncludesAny(text, { <<"error">>, <<"problem">>, <<"issue">>,
                                          <<"fix">>, <<"solution">> })
                   -> c0 + 100
              [] OTHER -> c0
      c2 == c1 + Len(extractMatchingKeywords(text, query)) * 50
      c3 == IF result.metadata.ageDays < 30 THEN c2 + 50 ELSE c2
  IN Max(0, Min(c3, Scale))

\* CitationManager.createCitation: the fields the engine's callers read
createCitation(result, index, query, queryAnalysis, totalResults) ==
  [ source |-> [ title |-> result.metadata.title, url |-> result.metadata.url,
                 domain |-> extractDomain(result.metadata.url) ],
    relevance |-> [ similarity |-> result.similarity,
                    confidence |-> calculateConfidence(result, query, queryAnalysis),
                    keywords |-> extractMatchingKeywords(result.text, query) ],
    metadata |-> [position |-> index, totalResults |-> totalResults] ]

(* CitationManager.processCitations.  The comparator reads a.confidence    *)
(* and a.similarity, fields a citation does not have (they are under       *)
(* relevance): it compares nothing and the order of the results is kept.   *)
processCitations(searchResults, query, queryAnalysis) ==
  [i \in 1..Len(searchResults) |->
     createCitation(searchResults[i], i, query, queryAnalysis, Len(searchResults))]

RECURSIVE SumConfidence(_)
SumConfidence(citations) ==
  IF citations = <<>> THEN 0
  ELSE Head(citations).relevance.confidence + SumConfidence(Tail(citations))

\* CitationManager.generateCitationSummary
generateCitationSummary(citations, queryAnalysis) ==
  LET keywords == queryAnalysis.keywords
      covered == {i \in 1..Len(keywords) :
                    \E j \in 1..Len(citations) :
                       keywords[i] \in Range(citations[j].relevance.keywords)}
  IN [ totalSources |-> Len(citations),
       confidence |-> IF citations = <<>> THEN 0
                      ELSE SumConfidence(citations) \div Len(citations),
       coverage |-> IF citations = <<>> \/ keywords = <<>> THEN 0
                    ELSE (Cardinality(covered) * Scale) \div Len(keywords) ]

(* RAGEngine.generateCitations with CitationManager.generateCitations.     *)
(* searchResults is [kind, val]: kind "array" with the list, or "missing"  *)
(* for a value that is not an array.                                       *)
generateCitations(searchResults, query) ==
  IF searchResults.kind # "array" THEN EmptyCitations
  ELSE IF InvalidQuery(query) THEN EmptyCitations
  ELSE IF searchResults.val = <<>> THEN EmptyCitations
  ELSE LET Summarized(citations, queryAnalysis) ==
             [ citations |-> citations,
               summary |-> generateCitationSummary(citations, queryAnalysis) ]
           Cited(queryAnalysis) ==
             Summarized(processCitations(searchResults.val, query.text, queryAnalysis),
                        queryAnalysis)
       IN Cited(preprocessQuery(query.text).analysis)


(* --------------------------- the state machine ------------------------- *)
VARIABLES
  useQdrant,            \* RAGEngine.useQdrant
  isInitialized,        \* RAGEngine.isInitialized
  qInit,                \* QdrantService.isInitialized
  qdrantUp,             \* environment: the external service answers requests
  points,               \* the external collection
  knowledgeBase,        \* RAGEngine.knowledgeBase
  similarityThreshold,  \* RAGEngine.similarityThreshold
  queryCache,           \* RAGEngine.queryCache
  embeddingCache,       \* RAGEngine.embeddingCache
  svcCache,             \* EmbeddingService.embeddingCache
  now,                  \* the clock, in minutes
  ingested,             \* the batches addDocuments has stored, in order
  nSearches,            \* search calls made
  startupFailed,        \* the initialization attempt at startup failed
  last,                 \* record of the most recent search call
  lateExternal,         \* a call made after a failed startup attempt went to the
                        \* external service (to initialize it or to query it)
  cite,                 \* record of the most recent generateCitations call
  chunked,              \* record of the most recent chunkText call
  calls,                \* the requests in flight: where each stands, what it holds
  lockFile,             \* log manager: the pid in .log_manager.lock, 0 without the file
  proc,                 \* log manager: its processes by pid
  scraper,              \* WebScraper: its URL sets, and the record of its last run
  server                \* server.js: isInitialized, and where each call of
                        \* initializeKnowledgeBase and each chat request stands

vars == << useQdrant, isInitialized, qInit, qdrantUp, points, knowledgeBase,
           similarityThreshold, queryCache, embeddingCache, svcCache, now,
           ingested, nSearches, startupFailed, last, lateExternal, cite >>

\* the state outside the engine
others == << chunked, calls, lockFile, proc, scraper, server >>

NoChunking ==
  [ sentences |-> <<>>, chunkSize |-> 0, overlap |-> 0,
    out |-> [pushed |-> <<>>, flushes |-> <<>>, chunks |-> <<>>] ]

\* nothing has happened outside the engine
\* the scraper before its first run
NoRun ==
  [ urls |-> <<>>, trackedUrls |-> {}, stored |-> {}, fetched |-> <<>>,
    results |-> <<>>, errors |-> <<>> ]

\* the log manager's processes: the daemon, started before the run, and the
\* commands the user runs beside it
DaemonPid == 1
Pids == 1..(MaxCommands + 1)

\* a request slot of the server before its request has arrived
IdleCall ==
  [ pc |-> "idle", route |-> "none", query |-> [kind |-> "string", text |-> <<>>],
    strategy |-> "none", topK |-> 0, threshold |-> 0, originalThreshold |-> 0,
    val |-> <<>>, alone |-> <<>> ]

\* the server at start-up, with URLS_TO_SCRAPE = urls: pc[0] is the call of
\* initializeKnowledgeBase made when the server starts to listen, pc[r] the
\* r-th /api/chat request
ServerIdle(urls) ==
  [ isInitialized |-> FALSE, urls |-> urls, pc |-> [p \in 0..MaxRequests |-> "idle"],
    results |-> [p \in 0..MaxRequests |-> <<>>], scrapes |-> 0, ingests |-> 0 ]

RestIdle ==
  /\ chunked = NoChunking
  /\ calls = [c \in 1..MaxCalls |-> IdleCall]
  /\ lockFile = 0
  /\ proc = [p \in Pids |-> [ cmd |-> IF p = DaemonPid THEN "daemon" ELSE "none",
                              pc |-> "idle", todo |-> 0, lock_pid |-> 0 ]]
  /\ scraper = [ trackedUrls |-> {}, scrapedUrls |-> {}, stored |-> {}, run |-> NoRun ]

OthersIdle == RestIdle /\ server = ServerIdle(DocBatches[1])

\* the engine state a call reads
St ==
  [ useQdrant |-> useQdrant, isInitialized |-> isInitialized, qInit |-> qInit,
    up |-> qdrantUp, points |-> points, knowledgeBase |-> knowledgeBase,
    similarityThreshold |-> similarityThreshold, queryCache |-> queryCache,
    emb |-> embeddingCache, svc |-> svcCache, now |-> now ]

\* the inputs of the calls
Q1 == <<"what", "is", "atlan", "?">>
Q2 == <<"error", "connecting", "to", "database">>
ValidQueries == {StringQuery(Q1), StringQuery(Q2)}
InvalidQueries ==
  { StringQuery(<<>>), [kind |-> "missing", text |-> <<>>],
    [kind |-> "number", text |-> <<>>] }
Strategies == {"hybrid", "semantic", "keyword", "contextual", "auto"}
\* conversationHistory and topK come together: the defaults, or both given
CallShapes ==
  { [conversationHistory |-> <<>>, topK |-> 0],
    [conversationHistory |-> << <<"tell", "me", "about", "atlan">> >>, topK |-> 2] }
SourceFilters == {"all", "Atlan", "Snowflake"}
TickSteps == {4, 5}

NoSearch ==
  [ query |-> StringQuery(<<>>), strategy |-> "none", sourceFilter |-> "none",
    topK |-> 0, conversationHistory |-> <<>>, val |-> <<>>, outcome |-> "none", threw |-> FALSE,
    embedCalls |-> 0, embedFailed |-> FALSE, qdrantInits |-> 0, qdrantCalls |-> 0,
    time |-> 0, late |-> FALSE, external |-> FALSE, matching |-> FALSE,
    cacheWritten |-> FALSE, log |-> <<>> ]

NoCitation ==
  [kind |-> "none", query |-> StringQuery(<<>>), empty |-> TRUE, out |-> EmptyCitations]

EngineInit ==
  /\ useQdrant \in BOOLEAN
  /\ isInitialized = FALSE
  /\ qInit = FALSE
  /\ qdrantUp \in BOOLEAN
  /\ points = <<>>
  /\ knowledgeBase = <<>>
  /\ similarityThreshold \in Thresholds
  /\ queryCache = <<>>
  /\ embeddingCache = {}
  /\ svcCache = {}
  /\ now = 0
  /\ ingested = <<>>
  /\ nSearches = 0
  /\ startupFailed = FALSE
  /\ last = NoSearch
  /\ lateExternal = FALSE
  /\ cite = NoCitation

Init == EngineInit /\ OthersIdle

\* a run covers MaxSearches search calls and what happens before and between
\* them, and ends with the citations generated for an answer
Running == nSearches < MaxSearches /\ cite = NoCitation

\* what the "if (!this.isInitialized) await this.initialize()" of a call leaves
\* in startupFailed
StartupOutcome == IF isInitialized THEN startupFailed ELSE useQdrant /\ ~qdrantUp

\* lateExternal after a call with the effects fx
LateAfter(fx) ==
  \/ lateExternal
  \/ isInitialized /\ startupFailed /\ (fx.qdrantInits > 0 \/ fx.qdrantCalls > 0)

\* server.js initializeKnowledgeBase: ragEngine.initialize() at startup
Initialize ==
  /\ Running
  /\ ~isInitialized
  /\ LET fx == initialize(NewFx(svcCache, embeddingCache, qInit), useQdrant, qdrantUp)
     IN /\ qInit' = fx.qInit
        /\ lateExternal' = LateAfter(fx)
  /\ isInitialized' = TRUE
  /\ startupFailed' = StartupOutcome
  /\ UNCHANGED << useQdrant, qdrantUp, points, knowledgeBase, similarityThreshold,
                  queryCache, embeddingCache, svcCache, now, ingested, nSearches,
                  last, cite, others >>

\* the chunks addDocument builds for document d in the in-process store
MemoryChunks(d) == [i \in 1..Len(Doc(d).content) |-> MkChunk(d, i, <<d, i - 1>>)]

\* the points addDocument builds for d: every point gets a fresh uuid
QdrantPoints(d, stored) ==
  [i \in 1..Len(Doc(d).content) |-> MkChunk(d, i, <<"uuid", Len(stored) + i>>)]

(* QdrantService.upsertPoints on the collection `stored`: the collection   *)
(* is looked up, then more than one point is sent in two requests, the     *)
(* first point alone and then all of them; a point sent again replaces the *)
(* one with its id.  upsertOk: the request with all points succeeds.       *)
upsertPoints(stored, pts, up, upsertOk) ==
  IF ~up THEN [ok |-> FALSE, points |-> stored]
  ELSE IF upsertOk THEN [ok |-> TRUE, points |-> stored \o pts]
  ELSE [ ok |-> FALSE,
         points |-> IF Len(pts) > 1 THEN Append(stored, pts[1]) ELSE stored ]

(* RAGEngine.addDocument with EmbeddingService.createEmbeddings and         *)
(* QdrantService.upsertPoints, on acc = [fx, points, knowledgeBase,        *)
(* stored, errors].  embOk: the embedding request succeeds.  The lazy      *)
(* initialize() is the caller's step (it runs once, before the first       *)
(* document).                                                              *)
addDocumentUpserting(acc, d, useQdrantNow, up, embOk, upsertOk) ==
  LET fx1 == [acc.fx EXCEPT !.embedCalls = @ + 1, !.embedFailed = @ \/ ~embOk]
      fx2 == IF embOk /\ useQdrantNow
             THEN [qdrantEnsure(fx1, up) EXCEPT !.qdrantCalls = @ + 1]
             ELSE fx1
      upserted == upsertPoints(acc.points, QdrantPoints(d, acc.points), up, upsertOk)
      ok == embOk /\ (useQdrantNow => upserted.ok)
  IN [ fx |-> fx2,
       points |-> IF embOk /\ useQdrantNow THEN upserted.points ELSE acc.points,
       knowledgeBase |-> IF ok /\ ~useQdrantNow
                         THEN acc.knowledgeBase \o MemoryChunks(d)
                         ELSE acc.knowledgeBase,
       stored |-> IF ok THEN Append(acc.stored, d) ELSE acc.stored,
       errors |-> IF ok THEN acc.errors ELSE Append(acc.errors, d) ]

\* addDocument when every request the service takes succeeds
addDocument(acc, d, useQdrantNow, up, embOk) ==
  addDocumentUpserting(acc, d, useQdrantNow, up, embOk, TRUE)

RECURSIVE addDocuments(_, _, _, _, _)
\* RAGEngine.addDocuments: one addDocument a document, its error collected
addDocuments(acc, documents, useQdrantNow, up, embOk) ==
  IF documents = <<>> THEN acc
  ELSE addDocuments(addDocument(acc, Head(documents), useQdrantNow, up, embOk),
                    Tail(documents), useQdrantNow, up, embOk)

(* A call of RAGEngine.addDocuments with the next batch of scraped         *)
(* documents; a batch that failed is handed over again.                    *)
AddDocuments(documents, embOk) ==
  /\ Running
  /\ Len(ingested) < MaxBatches
  /\ Len(ingested) < Len(DocBatches)
  /\ documents = DocBatches[Len(ingested) + 1]
  /\ LET fx0 == NewFx(svcCache, embeddingCache, qInit)
         fx1 == IF isInitialized THEN fx0 ELSE initialize(fx0, useQdrant, qdrantUp)
         r == addDocuments([ fx |-> fx1, points |-> points,
                             knowledgeBase |-> knowledgeBase, stored |-> <<>>,
                             errors |-> <<>> ],
                           documents, useQdrant, qdrantUp, embOk)
     IN /\ qInit' = r.fx.qInit
        /\ points' = r.points
        /\ knowledgeBase' = r.knowledgeBase
        /\ ingested' = IF r.errors = <<>> THEN Append(ingested, documents) ELSE ingested
        /\ lateExternal' = LateAfter(r.fx)
  /\ isInitialized' = TRUE
  /\ startupFailed' = StartupOutcome
  /\ UNCHANGED << useQdrant, qdrantUp, similarityThreshold, queryCache,
                  embeddingCache, svcCache, now, nSearches, last, cite, others >>

\* a chunk of the in-process store matches the query: it is at least as similar
\* to the optimized query as the configured threshold and holds one of its keywords
Matching(query) ==
  /\ ~InvalidQuery(query)
  /\ \E q \in {preprocessQuery(query.text)} :
        \E i \in 1..Len(knowledgeBase) :
           /\ cosineSimilarity(EmbeddingTable(q.optimized), knowledgeBase[i].vector).val
                >= similarityThreshold
           /\ \E j \in 1..Len(q.analysis.keywords) :
                 Includes(knowledgeBase[i].text, <<q.analysis.keywords[j]>>)

\* a call of RAGEngine.search, on the engine
SearchCall(query, strategy, conversationHistory, topK, sourceFilter, embOk) ==
  /\ Running
  /\ \E r \in {search(St, query, strategy, conversationHistory, topK, sourceFilter,
                      embOk)} :
        /\ qInit' = r.fx.qInit
        /\ queryCache' = r.queryCache
        /\ embeddingCache' = r.fx.emb
        /\ svcCache' = r.fx.svc
        /\ last' = [ query |-> query, strategy |-> strategy,
                     sourceFilter |-> sourceFilter, topK |-> topK,
                     conversationHistory |-> conversationHistory,
                     val |-> r.val, outcome |-> r.outcome, threw |-> FALSE,
                     embedCalls |-> r.fx.embedCalls,
                     embedFailed |-> r.fx.embedFailed,
                     qdrantInits |-> r.fx.qdrantInits,
                     qdrantCalls |-> r.fx.qdrantCalls,
                     time |-> now, late |-> isInitialized /\ startupFailed,
                     external |-> useQdrant, matching |-> Matching(query),
                     cacheWritten |-> r.queryCache # queryCache,
                     log |-> r.fx.log ]
        /\ lateExternal' = LateAfter(r.fx)
  /\ isInitialized' = TRUE
  /\ startupFailed' = StartupOutcome
  /\ nSearches' = nSearches + 1
  /\ UNCHANGED << useQdrant, qdrantUp, points, knowledgeBase, similarityThreshold,
                  now, ingested, cite >>

\* a call of RAGEngine.search
Search(query, strategy, conversationHistory, topK, sourceFilter, embOk) ==
  /\ SearchCall(query, strategy, conversationHistory, topK, sourceFilter, embOk)
  /\ UNCHANGED others

\* the first search of a run, with any inputs
FirstSearch ==
  /\ nSearches = 0
  /\ \E query \in ValidQueries, strategy \in Strategies, shape \in CallShapes,
        sourceFilter \in SourceFilters, embOk \in BOOLEAN :
        Search(query, strategy, shape.conversationHistory, shape.topK, sourceFilter,
               embOk)

\* a search without a usable query
BadSearch == \E query \in InvalidQueries : Search(query, "hybrid", <<>>, 0, "all", TRUE)

\* the client sends its last request again
RepeatSearch ==
  /\ nSearches > 0
  /\ \E embOk \in BOOLEAN :
        Search(last.query, last.strategy, last.conversationHistory, last.topK,
               last.sourceFilter, embOk)

\* RAGEngine.getStats (with getAvailableSources, which asks the external
\* service for its statistics once more)
GetStats ==
  /\ Running
  /\ LET fx0 == NewFx(svcCache, embeddingCache, qInit)
         fx1 == IF isInitialized THEN fx0 ELSE initialize(fx0, useQdrant, qdrantUp)
         s1 == qdrantGetStats(fx1, qdrantUp, points)
         s2 == qdrantGetStats(s1.fx, qdrantUp, points)
         fx2 == IF useQdrant THEN s2.fx ELSE fx1
     IN /\ qInit' = fx2.qInit
        /\ lateExternal' = LateAfter(fx2)
  /\ isInitialized' = TRUE
  /\ startupFailed' = StartupOutcome
  /\ UNCHANGED << useQdrant, qdrantUp, points, knowledgeBase, similarityThreshold,
                  queryCache, embeddingCache, svcCache, now, ingested, nSearches,
                  last, cite, others >>

\* time passes; the clock is read only against the timestamps the searches leave
Tick(dt) ==
  /\ Running
  /\ nSearches > 0
  /\ now + dt <= MaxTime
  /\ now' = now + dt
  /\ UNCHANGED << useQdrant, isInitialized, qInit, qdrantUp, points, knowledgeBase,
                  similarityThreshold, queryCache, embeddingCache, svcCache,
                  ingested, nSearches, startupFailed, last, lateExternal, cite, others >>

\* the external service stops answering
QdrantFails ==
  /\ Running
  /\ useQdrant
  /\ qdrantUp
  /\ qdrantUp' = FALSE
  /\ UNCHANGED << useQdrant, isInitialized, qInit, points, knowledgeBase,
                  similarityThreshold, queryCache, embeddingCache, svcCache, now,
                  ingested, nSearches, startupFailed, last, lateExternal, cite, others >>

\* the external service answers again
QdrantRecovers ==
  /\ Running
  /\ useQdrant
  /\ ~qdrantUp
  /\ qdrantUp' = TRUE
  /\ UNCHANGED << useQdrant, isInitialized, qInit, points, knowledgeBase,
                  similarityThreshold, queryCache, embeddingCache, svcCache, now,
                  ingested, nSearches, startupFailed, last, lateExternal, cite, others >>

\* a call of RAGEngine.generateCitations: on the list the last search returned
\* or on a value that is no array, for the query of that search or for no query
GenerateCitations(kind, query) ==
  /\ Running
  /\ nSearches > 0
  /\ query \in {last.query} \cup InvalidQueries
  /\ \E out \in {generateCitations([kind |-> kind, val |-> last.val], query)} :
        cite' = [kind |-> kind, query |-> query, empty |-> last.val = <<>>, out |-> out]
  /\ UNCHANGED << useQdrant, isInitialized, qInit, qdrantUp, points, knowledgeBase,
                  similarityThreshold, queryCache, embeddingCache, svcCache, now,
                  ingested, nSearches, startupFailed, last, lateExternal, others >>

Next ==
  \/ Initialize
  \/ \E documents \in Range(DocBatches), embOk \in BOOLEAN :
        AddDocuments(documents, embOk)
  \/ FirstSearch
  \/ BadSearch
  \/ RepeatSearch
  \/ GetStats
  \/ \E dt \in TickSteps : Tick(dt)
  \/ QdrantFails
  \/ QdrantRecovers
  \/ \E kind \in {"array", "missing"}, query \in ValidQueries \cup InvalidQueries :
        GenerateCitations(kind, query)

Spec == Init /\ [][Next]_vars

(* ----------------- the store under repeated ingestion ------------------ *)
(* The documents of the corpus are added one at a time, in batches and by   *)
(* reindexDocument, in any order and any number of times, cleared again,    *)
(* and searched.                                                            *)
MaxChunks == 4      \* single documents are added while the store is smaller

\* RAGEngine.reindexDocument: the chunks of document.url leave the in-process
\* store, then addDocument
reindexDocument(acc, d, useQdrantNow, up, embOk) ==
  addDocument([acc EXCEPT !.knowledgeBase =
                 SelectSeq(@, LAMBDA chunk : chunk.metadata.url # Doc(d).url)],
              d, useQdrantNow, up, embOk)

\* what a call that ingests leaves in the engine: r = [fx, points,
\* knowledgeBase, ...]
IngestedEngine(r) ==
  /\ qInit' = r.fx.qInit
  /\ points' = r.points
  /\ knowledgeBase' = r.knowledgeBase
  /\ lateExternal' = LateAfter(r.fx)
  /\ isInitialized' = TRUE
  /\ startupFailed' = StartupOutcome
  /\ UNCHANGED << useQdrant, qdrantUp, similarityThreshold, queryCache,
                  embeddingCache, svcCache, now, ingested, nSearches, last, cite >>

Ingested(r) == IngestedEngine(r) /\ UNCHANGED others

\* the accumulator of a call that ingests, after its lazy initialize()
IngestStart ==
  [ fx |-> IF isInitialized THEN NewFx(svcCache, embeddingCache, qInit)
           ELSE initialize(NewFx(svcCache, embeddingCache, qInit), useQdrant, qdrantUp),
    points |-> points, knowledgeBase |-> knowledgeBase, stored |-> <<>>,
    errors |-> <<>> ]

\* a call of RAGEngine.addDocument (server.js /api/add-url, /api/upload)
AddDocument(d, embOk, upsertOk) ==
  /\ Running
  /\ Len(knowledgeBase) < MaxChunks
  /\ Len(points) < MaxChunks
  /\ Ingested(addDocumentUpserting(IngestStart, d, useQdrant, qdrantUp, embOk,
                                   upsertOk))

\* a call of RAGEngine.reindexDocument
ReindexDocument(d, embOk) ==
  /\ Running
  /\ Len(knowledgeBase) < MaxChunks
  /\ Len(points) < MaxChunks
  /\ Ingested(reindexDocument(IngestStart, d, useQdrant, qdrantUp, embOk))

\* what a call that clears leaves behind: the in-process store is replaced and
\* EmbeddingService.clearCache() empties the service's cache
Cleared(kept) ==
  /\ Running
  /\ knowledgeBase' = kept
  /\ svcCache' = {}
  /\ UNCHANGED << useQdrant, isInitialized, qInit, qdrantUp, points,
                  similarityThreshold, queryCache, embeddingCache, now, ingested,
                  nSearches, startupFailed, last, lateExternal, cite, others >>

\* RAGEngine.clearKnowledgeBase
ClearKnowledgeBase == Cleared(<<>>)

\* RAGEngine.clearConfiguredSources (server.js /api/scrape): the chunks that
\* were added by hand stay
ClearConfiguredSources ==
  Cleared(SelectSeq(knowledgeBase, LAMBDA chunk : chunk.metadata.isManuallyAdded))

\* the values of topK the store is searched with (0: omitted)
StoreTopKs == {0, 1}

\* a search of the store
StoreSearch ==
  \E topK \in StoreTopKs : Search(StringQuery(Q1), "semantic", <<>>, topK, "all", TRUE)

NextStore ==
  \/ \E d \in {"A1", "A2"}, embOk \in BOOLEAN, upsertOk \in BOOLEAN :
        AddDocument(d, embOk, upsertOk)
  \/ \E d \in {"A1", "A2"}, embOk \in BOOLEAN : ReindexDocument(d, embOk)
  \/ \E documents \in Range(DocBatches), embOk \in BOOLEAN :
        AddDocuments(documents, embOk)
  \/ ClearKnowledgeBase
  \/ ClearConfiguredSources
  \/ StoreSearch

\* either store, of an engine configured with the default threshold
InitStore == Init /\ qdrantUp /\ similarityThreshold = DefaultThreshold

SpecStore == InitStore /\ [][NextStore]_<<vars, others>>

(* ------------------ server.js: start-up and /api/chat ------------------ *)
(* initializeKnowledgeBase is called when the server starts to listen and  *)
(* by every /api/chat request that finds isInitialized false.  Each call   *)
(* runs up to its next await in one step.                                  *)

\* the rest of the server is untouched by these calls
ServerUnchanged == UNCHANGED << chunked, calls, lockFile, proc, scraper >>

\* initializeKnowledgeBase entered by p: where p stands after
\* "if (isInitialized) return" and up to "await ragEngine.initialize()"
Entered(p) == IF server.isInitialized THEN "returned" ELSE "initialize"

\* where p goes on after its initializeKnowledgeBase has returned
Returned(p) == IF p = 0 THEN "done" ELSE "respond"

\* No call waits for a promise that resolves without I/O: in-process,
\* ragEngine.initialize() awaits nothing, and its caller goes on before the
\* event loop takes the next request or I/O completion
Settled == \A p \in 0..MaxRequests : server.pc[p] = "initialize" => useQdrant

\* app.listen's callback: initializeKnowledgeBase() in the background
Listen ==
  /\ server.pc[0] = "idle"
  /\ server' = [server EXCEPT !.pc[0] = IF Entered(0) = "returned" THEN Returned(0)
                                        ELSE Entered(0)]
  /\ UNCHANGED vars
  /\ ServerUnchanged

\* a valid /api/chat request arrives: "if (!isInitialized) await
\* initializeKnowledgeBase()"
Chat(r) ==
  /\ r > 0
  /\ Settled
  /\ server.pc[0] # "idle"
  /\ server.pc[r] = "idle"
  /\ server' = [server EXCEPT !.pc[r] = IF Entered(r) = "returned" THEN Returned(r)
                                        ELSE Entered(r)]
  /\ UNCHANGED vars
  /\ ServerUnchanged

\* ragEngine.initialize() has returned to p: without URLs the call is over,
\* else it calls scraper.scrapeUrls(URLS_TO_SCRAPE)
EngineInitialized(p) ==
  /\ server.pc[p] = "initialize"
  /\ \E fx \in {initialize(NewFx(svcCache, embeddingCache, qInit), useQdrant, qdrantUp)} :
        /\ qInit' = fx.qInit
        /\ lateExternal' = LateAfter(fx)
  /\ isInitialized' = TRUE
  /\ startupFailed' = StartupOutcome
  /\ server' = IF server.urls = <<>>
               THEN [server EXCEPT !.isInitialized = TRUE, !.pc[p] = Returned(p)]
               ELSE [server EXCEPT !.scrapes = @ + 1, !.pc[p] = "scraping"]
  /\ UNCHANGED << useQdrant, qdrantUp, points, knowledgeBase, similarityThreshold,
                  queryCache, embeddingCache, svcCache, now, ingested, nSearches,
                  last, cite >>
  /\ ServerUnchanged

\* scraper.scrapeUrls has returned results to p: with results it calls
\* ragEngine.addDocuments(results), without any the call is over
UrlsScraped(p, results) ==
  /\ Settled
  /\ server.pc[p] = "scraping"
  /\ server' = IF results # <<>>
               THEN [server EXCEPT !.ingests = @ + 1, !.results[p] = results,
                                   !.pc[p] = "ingesting"]
               ELSE [server EXCEPT !.isInitialized = TRUE, !.pc[p] = Returned(p)]
  /\ UNCHANGED vars
  /\ ServerUnchanged

\* ragEngine.addDocuments(results) has returned to p: isInitialized = true
DocumentsAdded(p, embOk) ==
  /\ Settled
  /\ server.pc[p] = "ingesting"
  /\ IngestedEngine(addDocuments(IngestStart, server.results[p], useQdrant, qdrantUp,
                                 embOk))
  /\ server' = [server EXCEPT !.isInitialized = TRUE, !.results[p] = <<>>,
                              !.pc[p] = Returned(p)]
  /\ ServerUnchanged

\* chatService.generateResponse of request r, with its search
Respond(r) ==
  /\ Settled
  /\ server.pc[r] = "respond"
  /\ SearchCall(StringQuery(Q1), "hybrid", <<>>, 0, "all", TRUE)
  /\ server' = [server EXCEPT !.pc[r] = "done"]
  /\ ServerUnchanged

NextStartup ==
  \/ Listen
  \/ \E r \in 1..MaxRequests : Chat(r)
  \/ \E p \in 0..MaxRequests : EngineInitialized(p)
  \/ \E p \in 0..MaxRequests, results \in {<<>>, server.urls} : UrlsScraped(p, results)
  \/ \E p \in 0..MaxRequests, embOk \in BOOLEAN : DocumentsAdded(p, embOk)
  \/ \E r \in 1..MaxRequests : Respond(r)

\* any configuration of URLS_TO_SCRAPE, the engine as configured
InitStartup ==
  /\ EngineInit
  /\ qdrantUp
  /\ similarityThreshold = DefaultThreshold
  /\ RestIdle
  /\ server \in {ServerIdle(urls) : urls \in {<<>>, DocBatches[1]}}

SpecStartup == InitStartup /\ [][NextStartup]_<<vars, others>>

(* ------------------- generateCitations on any result list -------------- *)
\* the result lists a caller can hand to generateCitations: two stored chunks
\* with any similarities
ResultLists ==
  LET chunks == {MkChunk(d, 1, <<d, 0>>) : d \in {"A1", "A2", "A4", "S1"}}
      results == {MkResult(c, sim) : c \in chunks, sim \in {600, 800, 900}}
  IN {pair \in {<<r1, r2>> : r1 \in results, r2 \in results} : pair[1].id # pair[2].id}

\* a call of RAGEngine.generateCitations with the list searchResults
CiteList(searchResults, query) ==
  /\ cite = NoCitation
  /\ \E out \in {generateCitations([kind |-> "array", val |-> searchResults], query)} :
        cite' = [kind |-> "array", query |-> query, empty |-> FALSE, out |-> out]
  /\ UNCHANGED << useQdrant, isInitialized, qInit, qdrantUp, points, knowledgeBase,
                  similarityThreshold, queryCache, embeddingCache, svcCache, now,
                  ingested, nSearches, startupFailed, last, lateExternal, others >>

NextCitations ==
  \E searchResults \in ResultLists, query \in ValidQueries :
     CiteList(searchResults, query)

SpecCitations == Init /\ [][NextCitations]_vars

(* ---------------------------- the result cache ------------------------- *)
(* The engine after MaxCached searches with different cache keys (the keys *)
(* are numbered) have cached their results in the first minute.            *)
InitCache ==
  /\ useQdrant = FALSE
  /\ isInitialized = TRUE
  /\ qInit = FALSE
  /\ qdrantUp = FALSE
  /\ points = <<>>
  /\ knowledgeBase = <<>>
  /\ similarityThreshold = DefaultThreshold
  /\ queryCache = [i \in 1..MaxCached |-> [key |-> i, results |-> <<>>, timestamp |-> 0]]
  /\ embeddingCache = {}
  /\ svcCache = {}
  /\ now = 0
  /\ ingested = <<>>
  /\ nSearches = MaxCached
  /\ startupFailed = FALSE
  /\ last = NoSearch
  /\ lateExternal = FALSE
  /\ cite = NoCitation
  /\ OthersIdle

\* the last step of a search, dt minutes after the one before it: cacheResult
\* with the key cacheKey, seen before or new
CacheResult(cacheKey, dt) ==
  /\ cacheKey <= nSearches + 1
  /\ now + dt <= MaxTime
  /\ now' = now + dt
  /\ queryCache' = cacheResult(queryCache, cacheKey, <<>>, now + dt)
  /\ nSearches' = Max(nSearches, cacheKey)
  /\ UNCHANGED << useQdrant, isInitialized, qInit, qdrantUp, points, knowledgeBase,
                  similarityThreshold, embeddingCache, svcCache, ingested,
                  startupFailed, last, lateExternal, cite, others >>

NextCache ==
  \E cacheKey \in {1, MaxCached} \cup (MaxCached + 1)..MaxKeys, dt \in {0} \cup TickSteps :
     CacheResult(cacheKey, dt)

SpecCache == InitCache /\ [][NextCache]_<<vars, others>>

(* --------------------------- requests in flight ------------------------ *)
(* The server after startup with the external store holding every document *)
(* and SIMILARITY_THRESHOLD unset.  Node runs one handler at a time; a     *)
(* handler gives way at an await that waits for the network.               *)
InitConcurrent ==
  /\ useQdrant = TRUE
  /\ isInitialized = TRUE
  /\ qInit = TRUE
  /\ qdrantUp = TRUE
  /\ \E r \in {addDocuments([ fx |-> NewFx({}, {}, TRUE), points |-> <<>>,
                              knowledgeBase |-> <<>>, stored |-> <<>>,
                              errors |-> <<>> ],
                            DocBatches[1] \o DocBatches[2], TRUE, TRUE, TRUE)} :
        /\ points = r.points
        /\ svcCache = r.fx.svc
  /\ knowledgeBase = <<>>
  /\ similarityThreshold = DefaultThreshold
  /\ queryCache = <<>>
  /\ embeddingCache = {}
  /\ now = 0
  /\ ingested = DocBatches
  /\ nSearches = 0
  /\ startupFailed = FALSE
  /\ last = NoSearch
  /\ lateExternal = FALSE
  /\ cite = NoCitation
  /\ OthersIdle

\* the threshold POST /api/debug-search is sent: its default, or another
DebugThresholds == {300, 500}

(* A request arrives and its handler runs up to the first await that waits *)
(* for the network, the getStats request of search.  POST /api/chat and    *)
(* /api/test-search call search right away; POST /api/debug-search saves   *)
(* the engine's threshold and sets its own first.                          *)
BeginCall(c, route, query, strategy, threshold) ==
  /\ calls[c].pc = "idle"
  /\ route = "debug" => strategy = "hybrid"
  /\ route = "chat" => threshold = 0
  /\ calls' = [calls EXCEPT ![c] =
                 [ pc |-> "awaiting", route |-> route, query |-> query,
                   strategy |-> strategy,
                   topK |-> IF route = "debug" THEN 10 ELSE maxChunksPerQuery,
                   threshold |-> threshold,
                   originalThreshold |-> similarityThreshold,
                   val |-> <<>>, alone |-> <<>> ]]
  /\ similarityThreshold' = IF route = "debug" THEN threshold ELSE similarityThreshold
  /\ UNCHANGED << useQdrant, isInitialized, qInit, qdrantUp, points, knowledgeBase,
                  queryCache, embeddingCache, svcCache, now, ingested, nSearches,
                  startupFailed, last, lateExternal, cite, chunked,
                  lockFile, proc, scraper, server >>

(* The network answers and the handler of c runs on, here to its end: the  *)
(* rest of search reads the engine as it is now, and /api/debug-search     *)
(* then puts back the threshold it saved.  alone is what the same search   *)
(* returns from the same engine with the threshold the call was given: the *)
(* configured one, or the one of the debug request.                        *)
FinishCall(c) ==
  /\ calls[c].pc = "awaiting"
  /\ \E r \in {search(St, calls[c].query, calls[c].strategy, <<>>, calls[c].topK,
                      "all", TRUE)},
        a \in {search([St EXCEPT !.similarityThreshold =
                                   IF calls[c].route = "debug" THEN calls[c].threshold
                                   ELSE DefaultThreshold],
                      calls[c].query, calls[c].strategy, <<>>, calls[c].topK,
                      "all", TRUE)} :
        /\ calls' = [calls EXCEPT ![c].pc = "done", ![c].val = r.val,
                                  ![c].alone = a.val]
        /\ qInit' = r.fx.qInit
        /\ queryCache' = r.queryCache
        /\ embeddingCache' = r.fx.emb
        /\ svcCache' = r.fx.svc
  /\ similarityThreshold' = IF calls[c].route = "debug"
                            THEN calls[c].originalThreshold
                            ELSE similarityThreshold
  /\ nSearches' = nSearches + 1
  /\ UNCHANGED << useQdrant, isInitialized, qdrantUp, points, knowledgeBase, now,
                  ingested, startupFailed, last, lateExternal, cite, chunked,
                  lockFile, proc, scraper, server >>

NextConcurrent ==
  \/ \E c \in 1..MaxCalls, query \in ValidQueries, strategy \in Strategies \ {"auto"} :
        BeginCall(c, "chat", query, strategy, 0)
  \/ \E c \in 1..MaxCalls, query \in ValidQueries, threshold \in DebugThresholds :
        BeginCall(c, "debug", query, "hybrid", threshold)
  \/ \E c \in 1..MaxCalls : FinishCall(c)

SpecConcurrent == InitConcurrent /\ [][NextConcurrent]_<<vars, others>>

(* ------------------------------ chunkText ------------------------------ *)
(* A text is the sequence of its sentences (what split(/[.!?]+/) and the   *)
(* filter of blank parts leave), a sentence or a chunk the sequence of its *)
(* words; lengths are counted in characters, words joined by one space.    *)
RECURSIVE joinedLength(_)
joinedLength(words) ==
  IF words = <<>> THEN 0
  ELSE Len(Head(words)) + (IF Len(words) > 1 THEN 1 ELSE 0) + joinedLength(Tail(words))

\* words.slice(-overlap): slice(-0) is slice(0), the whole array
sliceLast(words, overlap) ==
  IF overlap = 0 \/ overlap >= Len(words) THEN words
  ELSE SubSeq(words, Len(words) - overlap + 1, Len(words))

RECURSIVE chunkLoop(_, _, _, _, _, _)
(* The loop of chunkText over the sentences left.  flushes records, for    *)
(* every chunk pushed inside the loop, the sentence that caused the push.  *)
chunkLoop(sentences, chunks, flushes, currentChunk, chunkSize, overlap) ==
  IF sentences = <<>>
  THEN [ chunks |-> IF currentChunk # <<>> THEN Append(chunks, currentChunk)
                    ELSE chunks,
         flushes |-> flushes ]
  ELSE IF joinedLength(currentChunk) + joinedLength(Head(sentences)) > chunkSize
            /\ currentChunk # <<>>
  THEN chunkLoop(Tail(sentences), Append(chunks, currentChunk),
                 Append(flushes, Head(sentences)),
                 sliceLast(currentChunk, overlap) \o Head(sentences),
                 chunkSize, overlap)
  ELSE chunkLoop(Tail(sentences), chunks, flushes, currentChunk \o Head(sentences),
                 chunkSize, overlap)

(* RAGEngine.chunkText: [pushed, flushes, chunks], chunks being the value  *)
(* returned (the pushed chunks longer than 20 characters).                 *)
chunkText(sentences, chunkSize, overlap) ==
  LET Return(loop) ==
        [ pushed |-> loop.chunks, flushes |-> loop.flushes,
          chunks |-> SeqFilter(loop.chunks,
                               {c \in Range(loop.chunks) : joinedLength(c) > 20}) ]
  IN Return(chunkLoop(sentences, <<>>, <<>>, <<>>, chunkSize, overlap))

\* the sentences of the texts chunked: three long ones and a short one
Sentences ==
  { <<"atlan", "is", "a", "data", "catalog", "platform">>,
    <<"atlan", "connects", "to", "snowflake", "warehouse">>,
    <<"steps", "to", "fix", "atlan", "setup">>,
    <<"see", "docs">> }

\* the texts chunked: up to three different sentences
Texts ==
  {<<>>} \cup {<<a>> : a \in Sentences}
         \cup {t \in {<<a, b>> : a \in Sentences, b \in Sentences} : t[1] # t[2]}
         \cup {t \in {<<a, b, c>> : a \in Sentences, b \in Sentences, c \in Sentences} :
                 t[1] # t[2] /\ t[2] # t[3] /\ t[1] # t[3]}

\* a call of RAGEngine.chunkText
ChunkText(sentences, chunkSize, overlap) ==
  /\ chunked = NoChunking
  /\ \E out \in {chunkText(sentences, chunkSize, overlap)} :
        chunked' = [ sentences |-> sentences, chunkSize |-> chunkSize,
                     overlap |-> overlap, out |-> out ]
  /\ UNCHANGED << vars, calls, lockFile, proc, scraper, server >>

NextChunk ==
  \E sentences \in Texts, chunkSize \in {24, 40, 80}, overlap \in {0, 1, 2, 50} :
     ChunkText(sentences, chunkSize, overlap)

SpecChunk == Init /\ [][NextChunk]_<<vars, others>>

(* ----------------------------- log manager ----------------------------- *)
(* log-manager.sh.  A process is at                                        *)
(*   "idle"     not started, or the daemon between two operations          *)
(*   "acquire"  the head of the loop of acquire_lock                       *)
(*   "stale"    acquire_lock after it found the pid of the lock file dead  *)
(*   "holding"  rotate_logs or cleanup_old_logs between acquire_lock and   *)
(*              release_lock                                               *)
(*   "kill"     stop_daemon after its final rotation and cleanup           *)
(*   "release"  stop_daemon at its last line                               *)
(*   "exited"   gone: ps -p fails for its pid                              *)
(* todo counts the lock operations the process still has to run.  The file *)
(* is created and written in one step: a reader of the file still empty    *)
(* sleeps as it does when the owner is alive.                              *)
Alive(p) == proc[p].pc # "exited"

\* where a process goes after an operation, run or skipped
AfterOperation(p) ==
  IF proc[p].todo > 1 THEN [proc[p] EXCEPT !.todo = @ - 1, !.pc = "acquire"]
  ELSE [proc[p] EXCEPT !.todo = 0,
                       !.pc = CASE proc[p].cmd = "daemon" -> "idle"
                                [] proc[p].cmd = "stop" -> "kill"
                                [] OTHER -> "exited"]

LockUnchanged == UNCHANGED << vars, chunked, calls, scraper, server >>

\* the user runs "log-manager.sh rotate" (manual_rotate: rotate_logs, then
\* cleanup_old_logs) or "log-manager.sh stop" (stop_daemon: the same two when
\* the daemon runs, release_lock alone when it does not)
StartCommand(p, cmd) ==
  /\ p # DaemonPid
  /\ proc[p].cmd = "none"
  /\ proc' = [proc EXCEPT ![p] =
                [ cmd |-> cmd,
                  pc |-> IF cmd = "stop" /\ ~Alive(DaemonPid) THEN "release"
                         ELSE "acquire",
                  todo |-> IF cmd = "stop" /\ ~Alive(DaemonPid) THEN 0 ELSE 2,
                  lock_pid |-> 0 ]]
  /\ UNCHANGED lockFile
  /\ LockUnchanged

\* daemon_loop: a rotation or a cleanup is due
DaemonDue ==
  /\ proc[DaemonPid].pc = "idle"
  /\ proc' = [proc EXCEPT ![DaemonPid].pc = "acquire", ![DaemonPid].todo = 1]
  /\ UNCHANGED lockFile
  /\ LockUnchanged

\* acquire_lock, one round: the noclobber write creates the file, or the file
\* is there and its pid is read
TryLock(p) ==
  /\ proc[p].pc = "acquire"
  /\ IF lockFile = 0
     THEN /\ lockFile' = p
          /\ proc' = [proc EXCEPT ![p].pc = "holding"]
     ELSE /\ ~Alive(lockFile)
          /\ proc' = [proc EXCEPT ![p].pc = "stale", ![p].lock_pid = lockFile]
          /\ UNCHANGED lockFile
  /\ LockUnchanged

\* acquire_lock: rm -f of the lock found stale, and around the loop again
RemoveStale(p) ==
  /\ proc[p].pc = "stale"
  /\ lockFile' = 0
  /\ proc' = [proc EXCEPT ![p].pc = "acquire"]
  /\ LockUnchanged

\* acquire_lock gives up after 30 rounds against a lock whose owner lives: the
\* operation is skipped
GiveUp(p) ==
  /\ proc[p].pc = "acquire"
  /\ lockFile # 0 /\ Alive(lockFile)
  /\ proc' = [proc EXCEPT ![p] = AfterOperation(p)]
  /\ UNCHANGED lockFile
  /\ LockUnchanged

\* the end of rotate_logs or cleanup_old_logs: release_lock
ReleaseLock(p) ==
  /\ proc[p].pc = "holding"
  /\ lockFile' = 0
  /\ proc' = [proc EXCEPT ![p] = AfterOperation(p)]
  /\ LockUnchanged

\* stop_daemon: kill (and kill -9 when needed) ends the daemon where it is
KillDaemon(p) ==
  /\ proc[p].pc = "kill"
  /\ proc' = [proc EXCEPT ![p].pc = "release", ![DaemonPid].pc = "exited"]
  /\ UNCHANGED lockFile
  /\ LockUnchanged

\* stop_daemon, its last line: release_lock
StopRelease(p) ==
  /\ proc[p].pc = "release"
  /\ lockFile' = 0
  /\ proc' = [proc EXCEPT ![p].pc = "exited"]
  /\ LockUnchanged

NextLock ==
  \/ \E p \in Pids, cmd \in {"rotate", "stop"} : StartCommand(p, cmd)
  \/ DaemonDue
  \/ \E p \in Pids : TryLock(p)
  \/ \E p \in Pids : RemoveStale(p)
  \/ \E p \in Pids : GiveUp(p)
  \/ \E p \in Pids : ReleaseLock(p)
  \/ \E p \in Pids : KillDaemon(p)
  \/ \E p \in Pids : StopRelease(p)

SpecLock == Init /\ [][NextLock]_<<vars, others>>

(* ------------------------------ WebScraper ----------------------------- *)
(* The site: three pages and the links extractRelevantLinks finds on them. *)
(* A scraper state s is [trackedUrls, scrapedUrls, fetched]: the URL       *)
(* tracker, the session set and the requests sent so far, in order.  web   *)
(* is [stored, down]: the URLs isContentAvailable finds in the knowledge   *)
(* base and the URLs whose request fails.  A page stands for its URL.      *)
Urls == {"docs", "guide", "api"}

Links(url) ==
  CASE url = "docs" -> <<"guide", "api">>
    [] url = "guide" -> <<"docs">>
    [] OTHER -> <<>>

maxDepth == 3
maxPages == 100

RECURSIVE scrapeUrlRecursively(_, _, _, _)
RECURSIVE scrapeLinks(_, _, _, _, _)
\* the loop of scrapeUrlRecursively over the links of a page
scrapeLinks(s, web, links, depth, results) ==
  LET Sub(r) == scrapeLinks(r.s, web, Tail(links), depth, results \o r.results)
  IN IF links = <<>> THEN [s |-> s, results |-> results]
     ELSE IF Head(links) \in s.scrapedUrls
     THEN scrapeLinks(s, web, Tail(links), depth, results)
     ELSE Sub(scrapeUrlRecursively(s, web, Head(links), depth + 1))

\* WebScraper.scrapeUrlRecursively
scrapeUrlRecursively(s, web, startUrl, depth) ==
  LET Scraped(s3) ==
        IF depth < maxDepth /\ Cardinality(s3.scrapedUrls) < maxPages
        THEN scrapeLinks(s3, web, Links(startUrl), depth, <<startUrl>>)
        ELSE [s |-> s3, results |-> <<startUrl>>]
      Fetched(s2) ==
        IF startUrl \in web.down THEN [s |-> s2, results |-> <<>>]
        ELSE Scraped([s2 EXCEPT !.trackedUrls = @ \cup {startUrl}])
      Untracked(s1) ==
        IF startUrl \in s1.scrapedUrls THEN [s |-> s1, results |-> <<>>]
        ELSE Fetched([s1 EXCEPT !.scrapedUrls = @ \cup {startUrl},
                                !.fetched = Append(@, startUrl)])
  IN IF depth > maxDepth \/ Cardinality(s.scrapedUrls) >= maxPages
     THEN [s |-> s, results |-> <<>>]
     ELSE IF startUrl \in s.trackedUrls /\ startUrl \in web.stored
     THEN [s |-> s, results |-> <<>>]
     ELSE Untracked([s EXCEPT !.trackedUrls = @ \ {startUrl}])

\* WebScraper.scrapeUrl: one request, an error thrown when it fails
scrapeUrl(s, web, url) ==
  [ s |-> [s EXCEPT !.fetched = Append(@, url)], ok |-> url \notin web.down ]

RECURSIVE scrapeUrlsLoop(_, _, _, _, _)
\* the loop of scrapeUrls: a URL whose recursive scrape returns nothing is
\* scraped with scrapeUrl
scrapeUrlsLoop(s, web, urls, results, errors) ==
  LET Single(r) ==
        scrapeUrlsLoop(r.s, web, Tail(urls),
                       IF r.ok THEN Append(results, Head(urls)) ELSE results,
                       IF r.ok THEN errors ELSE Append(errors, Head(urls)))
      Recursive(r) ==
        IF r.results # <<>>
        THEN scrapeUrlsLoop(r.s, web, Tail(urls), results \o r.results, errors)
        ELSE Single(scrapeUrl(r.s, web, Head(urls)))
  IN IF urls = <<>> THEN [s |-> s, results |-> results, errors |-> errors]
     ELSE Recursive(scrapeUrlRecursively(s, web, Head(urls), 0))

\* WebScraper.scrapeUrls, with its resetScraperState
scrapeUrls(s, web, urls) ==
  scrapeUrlsLoop([s EXCEPT !.scrapedUrls = {}], web, urls, <<>>, <<>>)

(* POST /api/scrape on the in-process store: scrapeUrls of the configured  *)
(* URLs; when it returned results the configured sources are cleared and   *)
(* the results added (addOk: the embedding requests succeed).              *)
Scrape(urls, down, addOk) ==
  /\ \E r \in {scrapeUrls([ trackedUrls |-> scraper.trackedUrls,
                             scrapedUrls |-> scraper.scrapedUrls, fetched |-> <<>> ],
                           [stored |-> scraper.stored, down |-> down], urls)} :
        scraper' = [ trackedUrls |-> r.s.trackedUrls,
                     scrapedUrls |-> r.s.scrapedUrls,
                     stored |-> IF r.results = <<>> THEN scraper.stored
                                ELSE IF addOk THEN {r.results[i] : i \in 1..Len(r.results)}
                                ELSE {},
                     run |-> [ urls |-> urls, trackedUrls |-> scraper.trackedUrls,
                               stored |-> scraper.stored, fetched |-> r.s.fetched,
                               results |-> r.results, errors |-> r.errors ] ]
  /\ UNCHANGED << vars, chunked, calls, lockFile, proc, server >>

\* POST /api/url-tracking/clear
ClearTrackedUrls ==
  /\ scraper' = [scraper EXCEPT !.trackedUrls = {}]
  /\ UNCHANGED << vars, chunked, calls, lockFile, proc, server >>

NextScraper ==
  \/ \E urls \in {<<"docs">>, <<"guide", "api">>, <<"api", "docs">>},
        down \in {{}, {"guide"}, {"api"}}, addOk \in BOOLEAN :
        Scrape(urls, down, addOk)
  \/ ClearTrackedUrls

SpecScraper == Init /\ [][NextScraper]_<<vars, others>>

(* ------------------------------ properties ----------------------------- *)
\* a search call has been made
Searched == last.outcome # "none"

\* the domains of the results of the last search
ResultDomains == {extractDomain(last.val[i].metadata.url) : i \in 1..Len(last.val)}

\* the step is a search call that repeats the query, strategy and sourceFilter of
\* the call before it, less than cacheTimeout after it
RepeatedInTime ==
  /\ nSearches > 0
  /\ nSearches' = nSearches + 1
  /\ last'.query = last.query
  /\ last'.strategy = last.strategy
  /\ last'.sourceFilter = last.sourceFilter
  /\ last'.time - last.time < cacheTimeout

\* the number of results of the last search's call when it is made on the present
\* store with an empty result cache and the score threshold t
CountAt(t) ==
  Len(search([St EXCEPT !.similarityThreshold = t, !.queryCache = <<>>], last.query,
             last.strategy, last.conversationHistory, last.topK, last.sourceFilter,
             TRUE).val)

(* C1: with the external backend off and a chunk of the in-process store   *)
(* matching the query, a hybrid, semantic or keyword search whose          *)
(* embedding requests succeed returns a non-empty list and does not throw. *)
C1_FallbackNonEmpty ==
  ( /\ Searched
    /\ ~last.external
    /\ last.matching
    /\ last.strategy \in {"hybrid", "semantic", "keyword"}
    /\ last.sourceFilter = "all"
    /\ ~last.embedFailed )
  => (last.val # <<>> /\ ~last.threw)

(* C2: once the external backend failed to start, the engine is in         *)
(* in-process mode, and no later call initializes or queries the external  *)
(* backend.                                                                *)
C2_PermanentFallback == (startupFailed => ~useQdrant) /\ ~lateExternal

(* C3: the list a search returns is non-increasing in similarity.          *)
C3_SortedBySimilarity ==
  Searched =>
    \A i \in 1..(Len(last.val) - 1) :
       last.val[i].similarity >= last.val[i + 1].similarity

\* a cache hit hands back two results of different similarity
C3_Witness ==
  /\ last.outcome = "hit"
  /\ Len(last.val) >= 2
  /\ last.val[1].similarity > last.val[2].similarity

C5_DiversityCap ==
  Searched =>
    \A domain \in ResultDomains :
       Cardinality({i \in 1..Len(last.val) :
                      extractDomain(last.val[i].metadata.url) = domain}) <= maxPerSource

C7_SourceFilter ==
  (Searched /\ last.sourceFilter # "all") =>
    \A i \in 1..Len(last.val) :
       extractBrandName(last.val[i].metadata.url) = last.sourceFilter

\* a filtered search over a store that holds both brands returned results
C7_Witness ==
  /\ Searched
  /\ last.sourceFilter = "Atlan"
  /\ Len(ingested) = 2
  /\ last.val # <<>>

(* C8: on the same store, from an empty result cache, a search with the    *)
(* higher score threshold returns no more results than the same search     *)
(* with the lower one.                                                     *)
C8_ThresholdMonotone ==
  (Searched /\ last.query.kind = "string" /\ last.query.text # <<>>) =>
    CountAt(850) <= CountAt(DefaultThreshold)

(* C9: a search without a non-empty string query returns the empty list,   *)
(* does not throw, makes no embedding call and leaves the result cache;    *)
(* generateCitations on a value that is no array, on an empty list or      *)
(* without a non-empty string query returns the empty citation structure.  *)
C9_InvalidInput ==
  /\ (Searched /\ (last.query.kind # "string" \/ last.query.text = <<>>)) =>
        /\ last.val = <<>>
        /\ ~last.threw
        /\ last.embedCalls = 0
        /\ ~last.cacheWritten
  /\ ( /\ cite.kind # "none"
       /\ \/ cite.kind # "array"
          \/ cite.empty
          \/ cite.query.kind # "string"
          \/ cite.query.text = <<>> ) =>
        cite.out = [ citations |-> <<>>,
                     summary |-> [totalSources |-> 0, confidence |-> 0, coverage |-> 0] ]

\* a search without a query over a non-empty store, then citations asked for a
\* value that is no array
C9_Witness ==
  /\ Searched
  /\ last.query.kind = "missing"
  /\ Len(ingested) > 0
  /\ cite.kind = "missing"

(* C10: a search during which an embedding request failed throws.          *)
C10_EmbeddingFailureThrows == (Searched /\ last.embedFailed) => last.threw

(* C11: the citations generateCitations returns are ordered by confidence  *)
(* descending, and citations of equal confidence by similarity descending. *)
C11_CitationOrder ==
  \A i \in 1..(Len(cite.out.citations) - 1) :
     \/ cite.out.citations[i].relevance.confidence
          > cite.out.citations[i + 1].relevance.confidence
     \/ /\ cite.out.citations[i].relevance.confidence
             = cite.out.citations[i + 1].relevance.confidence
        /\ cite.out.citations[i].relevance.similarity
             >= cite.out.citations[i + 1].relevance.similarity

(* C12: a chunk begun by a flush starts with the last `overlap` words of   *)
(* the chunk flushed (none when overlap = 0) followed by the sentence that *)
(* caused the flush; with overlap = 0, three sentences that each fill the  *)
(* size limit give three chunks, one sentence each.                        *)
C12_ChunkOverlap ==
  LET pushed == chunked.out.pushed
      flushes == chunked.out.flushes
      Kept(words) == IF chunked.overlap >= Len(words) THEN words
                     ELSE SubSeq(words, Len(words) - chunked.overlap + 1, Len(words))
      Start(i) == Kept(pushed[i]) \o flushes[i]
  IN /\ \A i \in 1..Len(flushes) :
          /\ Len(pushed[i + 1]) >= Len(Start(i))
          /\ SubSeq(pushed[i + 1], 1, Len(Start(i))) = Start(i)
     /\ ( /\ chunked.overlap = 0
          /\ Len(chunked.sentences) = 3
          /\ \A i \in 1..3 : /\ joinedLength(chunked.sentences[i]) >= chunked.chunkSize
                             /\ joinedLength(chunked.sentences[i]) > 20 )
        => chunked.out.chunks = chunked.sentences

\* the keys of a result cache
CacheKeys(cache) == {cache[i].key : i \in 1..Len(cache)}

(* C13: after cacheResult the result cache holds at most 100 entries; an   *)
(* insertion that takes it above 100 evicts 20 entries, none of them newer *)
(* than an entry that stays, and keeps the entry just written.             *)
C13_CacheBound ==
  [][ /\ Len(queryCache') <= 100
      /\ (Len(queryCache) = 100 /\ CacheKeys(queryCache') # CacheKeys(queryCache)) =>
            /\ Cardinality(CacheKeys(queryCache') \ CacheKeys(queryCache)) = 1
            /\ Cardinality(CacheKeys(queryCache) \ CacheKeys(queryCache')) = 20
            /\ \A i \in 1..Len(queryCache), j \in 1..Len(queryCache') :
                  queryCache[i].key \notin CacheKeys(queryCache')
                    => queryCache[i].timestamp <= queryCache'[j].timestamp ]_vars

\* the cache after an eviction: 81 entries, the one written last among them
C13_Witness ==
  /\ Len(queryCache) = 81
  /\ nSearches > MaxCached
  /\ nSearches \in CacheKeys(queryCache)
  /\ 1 \notin CacheKeys(queryCache)


\* C14: a search call that has returned returned what the same search returns
\* when no other request is in flight: the threshold its retrieval used is the
\* one it was given, whatever the other requests set for the time being
C14_CallsIndependent ==
  \A c \in 1..MaxCalls : calls[c].pc = "done" => calls[c].val = calls[c].alone

\* C15: the lock file gives mutual exclusion: two processes never hold the
\* lock together, and the lock file is removed only by the process whose lock
\* it is or after that process has died
C15_LockMutualExclusion ==
  /\ [](\A p \in Pids, q \in Pids :
          proc[p].pc = "holding" /\ proc[q].pc = "holding" => p = q)
  /\ [][ lockFile # 0 /\ lockFile' = 0 =>
            \/ ~Alive(lockFile)
            \/ proc[lockFile].pc = "holding" /\ proc'[lockFile].pc # "holding" ]_<<lockFile, proc>>

\* C16: a scrapeUrls run sends no request for a URL that the tracker held and
\* whose content was in the knowledge base when the run began
C16_TrackedNotFetched ==
  \A i \in 1..Len(scraper.run.fetched) :
     ~(/\ scraper.run.fetched[i] \in scraper.run.trackedUrls
       /\ scraper.run.fetched[i] \in scraper.run.stored)

\* the runs of executeOptimizedSearch in the last search call, in order
Executed == SelectSeq(last.log, LAMBDA e : e.op = "execute")

\* entry i of the log of the last search call belongs to its primary retrieval
Primary(i) == \A j \in 1..(i - 1) : last.log[j].op # "execute"

\* C17: in a search call the fallback retrieval runs exactly when the primary
\* strategy returned no results, it runs once, and its strategy is semantic on
\* the external backend and keyword in process
C17_FallbackOnEmpty ==
  /\ Len(Executed) <= 2
  /\ Len(Executed) >= 1 =>
        (Len(Executed) = 2 <=> Executed[1].ok /\ Executed[1].found = 0)
  /\ Len(Executed) = 2 =>
        Executed[2].strategy = IF last.external THEN "semantic" ELSE "keyword"

C17_Witness ==
  /\ Len(Executed) = 2
  /\ last.external
  /\ Executed[2].strategy = "semantic"
  /\ Executed[2].found > 0
  /\ last.val # <<>>

\* C18: the candidates of the fallback retrieval are filtered with the
\* threshold max(0.2, similarityThreshold - 0.2)
C18_FallbackThreshold ==
  \A i \in 1..Len(last.log) :
     last.log[i].op = "filter" /\ ~Primary(i) =>
        last.log[i].threshold = Max(200, similarityThreshold - 200)

\* C19: the threshold the candidates of the semantic and the hybrid strategy
\* are filtered with is the adjusted threshold, and lies between 0.1 and 0.3
C19_AppliedThreshold ==
  \A i \in 1..Len(last.log) :
     last.log[i].op = "filter" /\ last.log[i].strategy \in {"semantic", "hybrid"} =>
        /\ last.log[i].threshold =
              adjustThreshold(similarityThreshold,
                              preprocessQuery(last.query.text).analysis)
        /\ last.log[i].threshold >= 100
        /\ last.log[i].threshold <= 300

\* C20: the text embedded for the primary vector search is the query as it
\* was given
C20_OriginalEmbedded ==
  \A i \in 1..Len(last.log) :
     last.log[i].op = "embed" /\ Primary(i) => last.log[i].text = last.query.text

\* C21: a contextual search with a conversation history retrieves with the
\* query followed by the words of more than 3 characters of the last 3 turns
C21_ContextualAugmented ==
  last.strategy = "contextual" /\ last.conversationHistory # <<>> =>
     \A i \in 1..Len(last.log) :
        last.log[i].op = "embed" /\ Primary(i) =>
           \E q \in {last.query.text, preprocessQuery(last.query.text).optimized} :
              last.log[i].text = enhanceQueryWithContext(q, last.conversationHistory)

\* C22: no two results of a list returned by search come from the same URL
\* path, and no two have texts of Jaccard similarity above 0.7
C22_NoNearDuplicates ==
  \A i \in 1..Len(last.val), j \in 1..Len(last.val) :
     i < j =>
        /\ extractUrlPath(last.val[i].metadata.url)
             # extractUrlPath(last.val[j].metadata.url)
        /\ calculateJaccardSimilarity(getTextWords(last.val[i].text),
                                      getTextWords(last.val[j].text))
             <= textSimilarityThreshold

\* C23: in process, a keyword search over a corpus that is not empty runs its
\* lexical scoring to the end without an error
C23_KeywordScores ==
  /\ ~last.external
  /\ last.strategy = "keyword"
  /\ last.outcome \in {"computed", "caught"}
  => /\ Executed # <<>>
     /\ Executed[1].strategy = "keyword"
     /\ Executed[1].ok

\* C24: in the type-specific ranking stage the 1.3x exact-phrase boost is
\* applied to a result if and only if its text contains the user's query
\* phrase: the boost recorded on every returned result of a computed search is
\* the one the ranking gives when the phrase looked for is the query itself.
C24_ExactPhraseBoost ==
  last.outcome = "computed" =>
     \A i \in 1..Len(last.val) :
        last.val[i].text # <<>> /\ "relevanceBoost" \in DOMAIN last.val[i] =>
           last.val[i].relevanceBoost =
              rankResult(last.val[i],
                         [original |-> last.query.text]
                            @@ preprocessQuery(last.query.text).analysis).relevanceBoost

\* C25: after any sequence of addDocument, addDocuments and reindexDocument
\* calls in in-process mode, no two chunks of the knowledge base have the same
\* id, also when a document with the same URL is ingested more than once.
C25_UniqueChunkIds ==
  ~useQdrant =>
     \A i \in 1..Len(knowledgeBase), j \in 1..Len(knowledgeBase) :
        knowledgeBase[i].id = knowledgeBase[j].id => i = j

\* C26: every list returned by search has at most topK entries (at most
\* maxChunksPerQuery when topK is omitted), whatever topK the earlier calls
\* were made with.
C26_AtMostTopK ==
  Len(last.val) <= (IF last.topK = 0 THEN maxChunksPerQuery ELSE last.topK)

\* C27: every chunk in a list returned by search belongs to the corpus as it is
\* when search returns: after clearKnowledgeBase, clearConfiguredSources or
\* reindexDocument has removed chunks, no later search returns a removed chunk.
C27_ResultsInCorpus ==
  [][ nSearches' = nSearches + 1 /\ ~useQdrant =>
         \A i \in 1..Len(last'.val) :
            \E j \in 1..Len(knowledgeBase') :
               knowledgeBase'[j].id = last'.val[i].id ]_<<vars, others>>

\* C28: once every /api/debug-search request in flight has completed, the
\* engine's similarityThreshold is the configured value it had before the first
\* of them started, for every interleaving of the requests.
C28_ThresholdRestored ==
  (\A c \in 1..MaxCalls : calls[c].pc # "awaiting") =>
     similarityThreshold = DefaultThreshold

\* C29: initializeKnowledgeBase scrapes and ingests the configured URLs at most
\* once per process: a /api/chat request that arrives while the background
\* initialization is still running starts no second scrape-and-ingest pass.
C29_InitializedOnce == server.scrapes <= 1 /\ server.ingests <= 1

\* C30: addDocument is all-or-nothing: a call that throws because the
\* embedding request or the vector upsert failed leaves the active store, the
\* in-process knowledge base or the external collection, as it was.
C30_AllOrNothing ==
  [][ \A d \in {"A1", "A2"}, embOk \in BOOLEAN, upsertOk \in BOOLEAN :
         /\ AddDocument(d, embOk, upsertOk)
         /\ addDocumentUpserting(IngestStart, d, useQdrant, qdrantUp, embOk,
                                 upsertOk).errors # <<>>
         => points' = points /\ knowledgeBase' = knowledgeBase ]_<<vars, others>>

=============================================================================
